---- MODULE Spec2Model ----
(***************************************************************************)
(* Student performance tracker: the grade calculator, the student record,  *)
(* the data processor (load, validate, convert) and the upload handler.    *)
(*                                                                         *)
(* Numbers are exact rationals <<n, d>> with d > 0 in lowest terms; the    *)
(* program's floats are modelled without rounding error.  A Python None is *)
(* the empty tuple for numbers and tables and the string "None" for grade  *)
(* labels.  A Python dict with insertion order is a sequence of            *)
(* <<key, value>> pairs with distinct keys.                                *)
(***************************************************************************)
EXTENDS Integers, Sequences, FiniteSets, TLC

VARIABLES
    weights,      \* GradeCalculator.weights: metric -> rational
    grade_scale,  \* GradeCalculator.grade_scale: threshold -> label
    students,     \* the list of Student objects (st.session_state.students)
    dataframe,    \* st.session_state.dataframe: None or a table
    call,         \* the last completed call: its name, argument and result
    probes        \* get_grade calls completed under the current grade_scale

vars == <<weights, grade_scale, students, dataframe, call, probes>>

-----------------------------------------------------------------------------
(* Bounds of the model *)

MaxProbes == 2
MaxStudents == 2
MaxRows == 2
MaxRecords == 3

-----------------------------------------------------------------------------
(* Exact rational arithmetic *)

Abs(x) == IF x < 0 THEN -x ELSE x

RECURSIVE GCD(_, _)
GCD(a, b) == IF b = 0 THEN a ELSE GCD(b, a % b)

RNorm(n, d) ==
    LET g == GCD(Abs(n), Abs(d))
        s == IF d < 0 THEN -1 ELSE 1
    IN  <<(s * n) \div g, (s * d) \div g>>

R(n) == <<n, 1>>
RAdd(a, b) == RNorm(a[1] * b[2] + b[1] * a[2], a[2] * b[2])
RSub(a, b) == RNorm(a[1] * b[2] - b[1] * a[2], a[2] * b[2])
RMul(a, b) == RNorm(a[1] * b[1], a[2] * b[2])
RDiv(a, b) == RNorm(a[1] * b[2], a[2] * b[1])
RAbs(a) == <<Abs(a[1]), a[2]>>
RLeq(a, b) == a[1] * b[2] <= b[1] * a[2]
RLt(a, b) == a[1] * b[2] < b[1] * a[2]
RGeq(a, b) == RLeq(b, a)
RGt(a, b) == RLt(b, a)
RMin(a, b) == IF RLeq(a, b) THEN a ELSE b
RMax(a, b) == IF RLeq(a, b) THEN b ELSE a

None == <<>>
NoGrade == "None"

-----------------------------------------------------------------------------
(* GradeCalculator: configuration *)

Metrics == {"academic", "cocurricular", "discipline"}

\* Mutant: the weights 0.5, 0.3 and 0.2.
DefaultWeights_half ==
    [m \in Metrics |->
        CASE m = "academic" -> <<1, 2>>
          [] m = "cocurricular" -> <<3, 10>>
          [] m = "discipline" -> <<1, 5>>]

DefaultWeights ==
    [m \in Metrics |->
        CASE m = "academic" -> <<3, 5>>
          [] m = "cocurricular" -> <<1, 4>>
          [] m = "discipline" -> <<3, 20>>]

DefaultGradeScale ==
    (90 :> "A") @@ (80 :> "B") @@ (70 :> "C") @@ (60 :> "D") @@ (0 :> "F")

\* update_grade_scale stores its argument as it is.
update_grade_scale(new_grade_scale) == new_grade_scale

-----------------------------------------------------------------------------
(* GradeCalculator.get_grade *)

SetMax(S) == CHOOSE x \in S : \A y \in S : y <= x

SetMin(S) == CHOOSE x \in S : \A y \in S : x <= y

\* Mutant: sorted(...) without reverse=True, the pairs in ascending order.
RECURSIVE sorted_items_asc(_)
sorted_items_asc(scale) ==
    IF DOMAIN scale = {} THEN <<>>
    ELSE LET m == SetMin(DOMAIN scale)
         IN  <<<<m, scale[m]>>>> \o
             sorted_items_asc([t \in (DOMAIN scale) \ {m} |-> scale[t]])

\* sorted(self.grade_scale.items(), reverse=True): the keys of a dict are
\* distinct, so the pairs are ordered by threshold alone.
RECURSIVE sorted_items_desc(_)
sorted_items_desc(scale) ==
    IF DOMAIN scale = {} THEN <<>>
    ELSE LET m == SetMax(DOMAIN scale)
         IN  <<<<m, scale[m]>>>> \o
             sorted_items_desc([t \in (DOMAIN scale) \ {m} |-> scale[t]])

\* Mutant: the loop test is score > min_score.
RECURSIVE get_grade_scan_strict(_, _)
get_grade_scan_strict(items, score) ==
    IF items = <<>> THEN None
    ELSE IF RGt(score, R(items[1][1])) THEN items[1]
    ELSE get_grade_scan_strict(Tail(items), score)

\* Mutant: the loop test is score <= min_score.
RECURSIVE get_grade_scan_flipped(_, _)
get_grade_scan_flipped(items, score) ==
    IF items = <<>> THEN None
    ELSE IF RLeq(score, R(items[1][1])) THEN items[1]
    ELSE get_grade_scan_flipped(Tail(items), score)

\* The for loop: the first pair with score >= min_score, or None when the
\* loop runs to its end.
RECURSIVE get_grade_scan(_, _)
get_grade_scan(items, score) ==
    IF items = <<>> THEN None
    ELSE IF RGeq(score, R(items[1][1])) THEN items[1]
    ELSE get_grade_scan(Tail(items), score)

\* The pair (min_score, grade) at which get_grade returns.
get_grade_match(scale, score) ==
    get_grade_scan(sorted_items_desc(scale), score)

get_grade(scale, score) ==
    LET m == get_grade_match(scale, score)
    IN  IF m = None THEN "F" ELSE m[2]

-----------------------------------------------------------------------------
(* GradeCalculator.update_weights *)

RECURSIVE SumValues(_)
SumValues(d) ==
    IF DOMAIN d = {} THEN R(0)
    ELSE LET k == CHOOSE x \in DOMAIN d : TRUE
         IN  RAdd(d[k], SumValues([x \in (DOMAIN d) \ {k} |-> d[x]]))

Tolerance == <<1, 100>>

\* dict.update: the keys of new replace those of old, the others stay.
DictUpdate(old, new) ==
    [k \in (DOMAIN old) \cup (DOMAIN new) |->
        IF k \in DOMAIN new THEN new[k] ELSE old[k]]

\* abs(total_weight - 1.0) > 0.01, total_weight summed over new_weights only
NeedsNormalizing(new_weights) ==
    RGt(RAbs(RSub(SumValues(new_weights), R(1))), Tolerance)

\* v / total_weight raises ZeroDivisionError for the first item when the
\* total is 0; with no item nothing is divided.
update_weights_raises(new_weights) ==
    /\ NeedsNormalizing(new_weights)
    /\ DOMAIN new_weights # {}
    /\ SumValues(new_weights) = R(0)

update_weights(old_weights, new_weights) ==
    IF update_weights_raises(new_weights) THEN old_weights
    ELSE IF NeedsNormalizing(new_weights)
    THEN LET total_weight == SumValues(new_weights)
             normalized_weights ==
                 [k \in DOMAIN new_weights |-> RDiv(new_weights[k], total_weight)]
         IN  DictUpdate(old_weights, normalized_weights)
    ELSE DictUpdate(old_weights, new_weights)

\* GradeCalculator.__init__: the defaults, then the custom weights and the
\* custom scale when they are given and not empty.
GradeCalculator_init(w, gs) ==
    [weights |-> IF DOMAIN w # {} THEN update_weights(DefaultWeights, w)
                 ELSE DefaultWeights,
     grade_scale |-> IF DOMAIN gs # {} THEN update_grade_scale(gs)
                     ELSE DefaultGradeScale]

-----------------------------------------------------------------------------
(* Cells of a table, and the Student record *)

Num(r) == [k |-> "num", n |-> r, s |-> ""]
Str(x) == [k |-> "str", n |-> R(0), s |-> x]
NaN == [k |-> "nan", n |-> R(0), s |-> ""]

\* Student.__init__: the scores pass through float(), the grade attributes
\* start as None, the keyword arguments become the optional attributes.
Student_init(student_id, name, academic_score, cocurricular_score, discipline_score, kwargs) ==
    [student_id |-> student_id,
     name |-> name,
     academic_score |-> academic_score,
     cocurricular_score |-> cocurricular_score,
     discipline_score |-> discipline_score,
     academic_grade |-> NoGrade,
     cocurricular_grade |-> NoGrade,
     discipline_grade |-> NoGrade,
     overall_score |-> None,
     overall_grade |-> NoGrade,
     attributes |-> kwargs]

-----------------------------------------------------------------------------
(* GradeCalculator: grading *)

\* Mutant: the result is clamped to 100.
calculate_overall_score_clamped(w, student) ==
    RMin(RAdd(RAdd(RMul(student.academic_score, w["academic"]),
                   RMul(student.cocurricular_score, w["cocurricular"])),
              RMul(student.discipline_score, w["discipline"])),
         R(100))

\* Mutant: the result is added to the overall score the record already has.
calculate_overall_score_accumulating(w, student) ==
    RAdd(IF student.overall_score = None THEN R(0) ELSE student.overall_score,
         RAdd(RAdd(RMul(student.academic_score, w["academic"]),
                   RMul(student.cocurricular_score, w["cocurricular"])),
              RMul(student.discipline_score, w["discipline"])))

calculate_overall_score(w, student) ==
    RAdd(RAdd(RMul(student.academic_score, w["academic"]),
              RMul(student.cocurricular_score, w["cocurricular"])),
         RMul(student.discipline_score, w["discipline"]))

\* Mutant: the assignment of overall_grade is missing.
calculate_grades_partial(w, scale, student) ==
    [student EXCEPT
        !.overall_score = calculate_overall_score(w, student),
        !.academic_grade = get_grade(scale, student.academic_score),
        !.cocurricular_grade = get_grade(scale, student.cocurricular_score),
        !.discipline_grade = get_grade(scale, student.discipline_score)]

\* Mutant: the overall score is also stored among the optional attributes.
calculate_grades_into_attributes(w, scale, student) ==
    [student EXCEPT
        !.overall_score = calculate_overall_score(w, student),
        !.academic_grade = get_grade(scale, student.academic_score),
        !.cocurricular_grade = get_grade(scale, student.cocurricular_score),
        !.discipline_grade = get_grade(scale, student.discipline_score),
        !.overall_grade = get_grade(scale, calculate_overall_score(w, student)),
        !.attributes =
            Append(SelectSeq(student.attributes,
                             LAMBDA pair : pair[1] # "overall_score"),
                   <<"overall_score", Num(calculate_overall_score(w, student))>>)]

calculate_grades(w, scale, student) ==
    LET s1 == [student EXCEPT
                  !.overall_score = calculate_overall_score(w, student)]
    IN  [s1 EXCEPT
            !.academic_grade = get_grade(scale, s1.academic_score),
            !.cocurricular_grade = get_grade(scale, s1.cocurricular_score),
            !.discipline_grade = get_grade(scale, s1.discipline_score),
            !.overall_grade = get_grade(scale, s1.overall_score)]

calculate_bulk_grades(w, scale, list) ==
    [i \in 1..Len(list) |-> calculate_grades(w, scale, list[i])]

-----------------------------------------------------------------------------
(* The state after construction, shared by the specifications *)

NoCall == [op |-> "none", arg |-> None, ret |-> None, raised |-> FALSE]

InitBase ==
    /\ weights = DefaultWeights
    /\ grade_scale = DefaultGradeScale
    /\ students = <<>>
    /\ dataframe = None
    /\ call = NoCall
    /\ probes = {}

-----------------------------------------------------------------------------
(* Specification SpecScale: the grade scale and get_grade *)

ThresholdPool == {0, 50, 90}
LabelPool == {"A", "B", "F"}

\* The scales a caller may pass: any mapping of some thresholds to labels.
ScalePool == UNION {[S -> LabelPool] : S \in SUBSET ThresholdPool}

ScorePool == {R(-5), R(0), <<99, 2>>, R(50), R(90), R(100)}

InitScale ==
    /\ \E gs \in ScalePool :
          grade_scale = GradeCalculator_init([m \in {} |-> R(0)], gs).grade_scale
    /\ weights = DefaultWeights
    /\ students = <<>>
    /\ dataframe = None
    /\ call = NoCall
    /\ probes = {}

UpdateGradeScale(new_grade_scale) ==
    /\ grade_scale' = update_grade_scale(new_grade_scale)
    /\ probes' = {}
    /\ call' = [op |-> "update_grade_scale", arg |-> None, ret |-> None,
                raised |-> FALSE]
    /\ UNCHANGED <<weights, students, dataframe>>

GetGrade(score) ==
    /\ Cardinality(probes) < MaxProbes
    /\ probes' = probes \cup
          {[score |-> score,
            band |-> get_grade_match(grade_scale, score),
            grade |-> get_grade(grade_scale, score)]}
    /\ call' = [op |-> "get_grade", arg |-> score,
                ret |-> None, raised |-> FALSE]
    /\ UNCHANGED <<weights, grade_scale, students, dataframe>>

NextScale ==
    \/ \E gs \in ScalePool : UpdateGradeScale(gs)
    \/ \E s \in ScorePool : GetGrade(s)

SpecScale == InitScale /\ [][NextScale]_vars

Range(f) == {f[x] : x \in DOMAIN f}

InUnitRange(score) == RLeq(R(0), score) /\ RLeq(score, R(100))

\* C1: get_grade returns the label of the pair with the largest threshold
\* that is <= score; a score equal to a threshold gets that threshold's label.
C1_LargestThresholdAtMostScore ==
    \A p \in probes :
        LET atMost == {t \in DOMAIN grade_scale : t * p.score[2] <= p.score[1]}
        IN  atMost # {} => p.grade = grade_scale[SetMax(atMost)]

\* A call whose score equals a threshold, with a lower threshold of another
\* label in the scale.
C1_Witness ==
    \E p \in probes :
        /\ p.score[2] = 1
        /\ p.score[1] \in DOMAIN grade_scale
        /\ p.grade = grade_scale[p.score[1]]
        /\ \E t \in DOMAIN grade_scale :
              t < p.score[1] /\ grade_scale[t] # p.grade

\* C2 as claimed: in every reachable configuration the scale has a
\* 0-threshold entry, and get_grade of a score in [0,100] returns a label of
\* the scale without reaching the fallback.
C2_ScaleAlwaysHasZeroThreshold ==
    /\ 0 \in DOMAIN grade_scale
    /\ \A p \in probes :
          InUnitRange(p.score) =>
              p.band # None /\ p.grade \in Range(grade_scale)

\* C2 as amended: whenever the current scale has a 0-threshold entry,
\* get_grade of a score in [0,100] returns the label of a pair of the scale
\* and never reaches the fallback.
C2_ZeroThresholdScaleAlwaysMatches ==
    0 \in DOMAIN grade_scale =>
        \A p \in probes :
            InUnitRange(p.score) =>
                /\ p.band # None
                /\ p.band[1] \in DOMAIN grade_scale
                /\ p.grade = grade_scale[p.band[1]]

\* get_grade(0) under a custom scale that has a 0-threshold entry and no
\* label "F".
C2_Witness ==
    /\ 0 \in DOMAIN grade_scale
    /\ grade_scale # DefaultGradeScale
    /\ "F" \notin Range(grade_scale)
    /\ \E p \in probes : p.score = R(0) /\ p.grade = grade_scale[0]

\* C7: for scores s1 < s2 the band get_grade(s1) returns has no higher
\* threshold than the band get_grade(s2) returns (a score that matches no
\* band is below every band).
C7_GradeMonotone ==
    \A p1, p2 \in probes :
        (RLt(p1.score, p2.score) /\ p1.band # None) =>
            p2.band # None /\ p1.band[1] <= p2.band[1]

\* Two calls with s1 < s2 that return different bands.
C7_Witness ==
    \E p1, p2 \in probes :
        /\ RLt(p1.score, p2.score)
        /\ p1.band # None /\ p2.band # None
        /\ p1.band[1] < p2.band[1]

-----------------------------------------------------------------------------
(* Specification SpecCalc: weights, student records and grading *)

EmptyDict == [k \in {} |-> R(0)]

FullWeights(a, c, d) ==
    [m \in Metrics |->
        CASE m = "academic" -> a
          [] m = "cocurricular" -> c
          [] m = "discipline" -> d]

\* The arguments of update_weights: one metric only; all three summing to 1;
\* all three summing to 4; two metrics summing to 0.
WeightInputPool ==
    { [m \in {"academic"} |-> <<1, 2>>],
      FullWeights(<<1, 2>>, <<3, 10>>, <<1, 5>>),
      FullWeights(R(1), R(1), R(2)),
      [m \in {"academic", "cocurricular"} |-> R(0)] }

\* (academic_score, cocurricular_score, discipline_score) of a new record
RawScorePool == {<<R(85), R(75), R(90)>>, <<R(100), <<119, 2>>, R(60)>>}

InitCalc ==
    /\ \E w \in WeightInputPool \cup {EmptyDict} :
          /\ ~update_weights_raises(w)
          /\ weights = GradeCalculator_init(w, EmptyDict).weights
    /\ grade_scale = DefaultGradeScale
    /\ students = <<>>
    /\ dataframe = None
    /\ call = NoCall
    /\ probes = {}

\* Student(...) appended to the caller's list
NewStudent(student_id, raw) ==
    /\ Len(students) < MaxStudents
    /\ students' = Append(students,
          Student_init(Str(student_id), Str("Ann"), raw[1], raw[2], raw[3], <<>>))
    /\ call' = [op |-> "Student", arg |-> None, ret |-> None, raised |-> FALSE]
    /\ UNCHANGED <<weights, grade_scale, dataframe, probes>>

UpdateWeights(new_weights) ==
    /\ weights' = update_weights(weights, new_weights)
    /\ call' = [op |-> "update_weights", arg |-> None, ret |-> None,
                raised |-> update_weights_raises(new_weights)]
    /\ UNCHANGED <<grade_scale, students, dataframe, probes>>

CalculateOverallScore(i) ==
    /\ call' = [op |-> "calculate_overall_score", arg |-> i,
                ret |-> calculate_overall_score(weights, students[i]),
                raised |-> FALSE]
    /\ UNCHANGED <<weights, grade_scale, students, dataframe, probes>>

CalculateGrades(i) ==
    /\ students' = [students EXCEPT
                       ![i] = calculate_grades(weights, grade_scale, students[i])]
    /\ call' = [op |-> "calculate_grades", arg |-> i, ret |-> None,
                raised |-> FALSE]
    /\ UNCHANGED <<weights, grade_scale, dataframe, probes>>

CalculateBulkGrades ==
    /\ students' = calculate_bulk_grades(weights, grade_scale, students)
    /\ call' = [op |-> "calculate_bulk_grades", arg |-> students, ret |-> None,
                raised |-> FALSE]
    /\ UNCHANGED <<weights, grade_scale, dataframe, probes>>

NextCalc ==
    \/ \E raw \in RawScorePool : NewStudent("S1", raw)
    \/ \E w \in WeightInputPool : UpdateWeights(w)
    \/ \E i \in 1..Len(students) : CalculateOverallScore(i)
    \/ \E i \in 1..Len(students) : CalculateGrades(i)
    \/ CalculateBulkGrades

SpecCalc == InitCalc /\ [][NextCalc]_vars

\* C3: calculate_overall_score returns
\* weight[academic]*academic_score + weight[cocurricular]*cocurricular_score
\* + weight[discipline]*discipline_score under the current weights, exactly
\* (stated over integers, by cross-multiplication of the three products).
C3_OverallScoreIsWeightedSum ==
    call.op = "calculate_overall_score" =>
        LET s == students[call.arg]
            an == weights["academic"][1] * s.academic_score[1]
            ad == weights["academic"][2] * s.academic_score[2]
            cn == weights["cocurricular"][1] * s.cocurricular_score[1]
            cd == weights["cocurricular"][2] * s.cocurricular_score[2]
            dn == weights["discipline"][1] * s.discipline_score[1]
            dd == weights["discipline"][2] * s.discipline_score[2]
        IN  call.ret[1] * (ad * cd * dd) =
                call.ret[2] * (an * cd * dd + cn * ad * dd + dn * ad * cd)

\* A result above 100 that is not a whole number: neither clamped nor rounded.
C3_Witness ==
    /\ call.op = "calculate_overall_score"
    /\ RGt(call.ret, R(100))
    /\ call.ret[2] # 1

\* The record with the scores 85, 75 and 90 was graded by the last call,
\* under the default weights and the default scale.
ExampleGraded ==
    /\ call.op = "calculate_grades"
    /\ weights = DefaultWeights /\ grade_scale = DefaultGradeScale
    /\ students[call.arg].academic_score = R(85)
    /\ students[call.arg].cocurricular_score = R(75)
    /\ students[call.arg].discipline_score = R(90)

\* C22 as stated: with the default configuration the record with the scores
\* 85, 75 and 90 is graded to the composite score 83.0 and the grade A-.
C22_ExampleIs83AMinus ==
    ExampleGraded =>
        /\ students[call.arg].overall_score = R(83)
        /\ students[call.arg].overall_grade = "A-"

\* C22 amended: with the default configuration the record with the scores
\* 85, 75 and 90 is graded to the composite score 83.25 and the grade B.
C22_ExampleIs8325B ==
    ExampleGraded =>
        /\ students[call.arg].overall_score = <<333, 4>>
        /\ students[call.arg].overall_grade = "B"

\* The record of the example has been graded under the default configuration.
C22_Witness ==
    /\ ExampleGraded
    /\ students[call.arg].overall_score # None

\* The fields of a record that grading reads and does not write.
SameInputs(before, after) ==
    /\ after.student_id = before.student_id
    /\ after.name = before.name
    /\ after.academic_score = before.academic_score
    /\ after.cocurricular_score = before.cocurricular_score
    /\ after.discipline_score = before.discipline_score
    /\ after.attributes = before.attributes

\* C27: a step of calculate_grades or calculate_bulk_grades leaves the
\* weights and the grade scale as they were, keeps the number of records,
\* and leaves the id, the name, the three raw scores and the optional
\* attributes of every record as they were.
C27_GradingChangesOnlyDerivedFields ==
    [][call'.op \in {"calculate_grades", "calculate_bulk_grades"} =>
          /\ weights' = weights
          /\ grade_scale' = grade_scale
          /\ Len(students') = Len(students)
          /\ \A i \in 1..Len(students) : SameInputs(students[i], students'[i])]_vars

\* A bulk grading under weights other than the default ones that changed the
\* derived fields of two records.
C27_Witness ==
    /\ call.op = "calculate_bulk_grades"
    /\ weights # DefaultWeights
    /\ Len(students) = 2
    /\ \A i \in 1..2 :
          /\ call.arg[i].overall_score # students[i].overall_score
          /\ students[i].overall_score # None

DerivedAllUnset(s) ==
    /\ s.overall_score = None
    /\ s.academic_grade = NoGrade
    /\ s.cocurricular_grade = NoGrade
    /\ s.discipline_grade = NoGrade
    /\ s.overall_grade = NoGrade

DerivedAllSet(s) ==
    /\ s.overall_score # None
    /\ s.academic_grade # NoGrade
    /\ s.cocurricular_grade # NoGrade
    /\ s.discipline_grade # NoGrade
    /\ s.overall_grade # NoGrade

\* C4: the five derived fields of every record are all unset or all set.
C4_DerivedAllOrNothing ==
    \A i \in 1..Len(students) :
        DerivedAllUnset(students[i]) \/ DerivedAllSet(students[i])

\* After calculate_grades on one record of two: one graded, one fresh.
C4_Witness ==
    /\ call.op = "calculate_grades"
    /\ \E i, j \in 1..Len(students) :
          DerivedAllSet(students[i]) /\ DerivedAllUnset(students[j])

SumOfWeights ==
    RAdd(RAdd(weights["academic"], weights["cocurricular"]),
         weights["discipline"])

\* C5 as claimed: after update_weights the three weights sum to 1.0 within
\* the tolerance of 0.01.
C5_WeightsSumToOneAfterUpdate ==
    (call.op = "update_weights" /\ ~call.raised) =>
        RLeq(RAbs(RSub(SumOfWeights, R(1))), Tolerance)

\* C6: after calculate_bulk_grades, a second calculate_bulk_grades under the
\* same weights and scale leaves every record as it is.
C6_GradingIdempotent ==
    call.op = "calculate_bulk_grades" =>
        calculate_bulk_grades(weights, grade_scale, students) = students

\* A bulk grading of a record that had been graded under other weights: the
\* stored overall score and overall grade were replaced.
C6_Witness ==
    /\ call.op = "calculate_bulk_grades"
    /\ \E i \in 1..Len(students) :
          /\ DerivedAllSet(call.arg[i])
          /\ call.arg[i].overall_score # students[i].overall_score
          /\ call.arg[i].overall_grade # students[i].overall_grade

-----------------------------------------------------------------------------
(* Tables (pandas DataFrame): the column names in order, and the rows, each
   with its index label and one cell for every column *)

NoneCell == [k |-> "none", n |-> R(0), s |-> ""]

SeqRange(q) == {q[i] : i \in 1..Len(q)}

EmptyTable == [columns |-> <<>>, rows |-> <<>>]

required_columns ==
    <<"student_id", "name", "academic_score", "cocurricular_score",
      "discipline_score">>

score_columns == <<"academic_score", "cocurricular_score", "discipline_score">>

\* The strings pd.to_numeric and float() read as numbers, among those of the
\* model, with the number each denotes.
NumericStrings == ("85" :> R(85)) @@ ("120" :> R(120))

IsNumeric(cell) ==
    cell.k = "num" \/ (cell.k = "str" /\ cell.s \in DOMAIN NumericStrings)

\* pd.to_numeric(..., errors='coerce') on one cell
to_numeric(cell) ==
    IF cell.k = "num" THEN cell
    ELSE IF cell.k = "str" /\ cell.s \in DOMAIN NumericStrings
    THEN Num(NumericStrings[cell.s])
    ELSE NaN

IsNull(cell) == cell.k \in {"nan", "none"}

\* float() of a score cell that holds a number or a numeric string
Float(cell) == IF cell.k = "num" THEN cell.n ELSE NumericStrings[cell.s]

\* Mutant: only the upper bound is applied.
clip_upper_only(cell, lower, upper) ==
    IF cell.k = "num" THEN Num(RMin(cell.n, upper)) ELSE cell

\* Mutant: only the lower limit is applied.
clip_lower_only(cell, lower, upper) ==
    IF cell.k = "num" THEN Num(RMax(cell.n, lower)) ELSE cell

\* Series.clip(lower, upper) on one cell
clip(cell, lower, upper) ==
    IF cell.k = "num" THEN Num(RMin(RMax(cell.n, lower), upper)) ELSE cell

\* for col in score columns: df[col] = pd.to_numeric(df[col], errors='coerce')
coerce_scores(df) ==
    [df EXCEPT !.rows =
        [i \in 1..Len(df.rows) |->
            [df.rows[i] EXCEPT !.cells =
                [c \in DOMAIN df.rows[i].cells |->
                    IF c \in SeqRange(score_columns)
                    THEN to_numeric(df.rows[i].cells[c])
                    ELSE df.rows[i].cells[c]]]]]

\* for col in score columns: df[col] = df[col].clip(0, 100)
clip_scores(df) ==
    [df EXCEPT !.rows =
        [i \in 1..Len(df.rows) |->
            [df.rows[i] EXCEPT !.cells =
                [c \in DOMAIN df.rows[i].cells |->
                    IF c \in SeqRange(score_columns)
                    THEN clip(df.rows[i].cells[c], R(0), R(100))
                    ELSE df.rows[i].cells[c]]]]]

\* Mutant: only the score columns are looked at.
dropna_scores_only(df, cols) ==
    [df EXCEPT !.rows =
        SelectSeq(df.rows,
                  LAMBDA r : \A c \in SeqRange(score_columns) : ~IsNull(r.cells[c]))]

\* df.dropna(subset=cols): the rows with no null cell in cols, index kept
dropna(df, cols) ==
    [df EXCEPT !.rows =
        SelectSeq(df.rows,
                  LAMBDA r : \A c \in SeqRange(cols) : ~IsNull(r.cells[c]))]

-----------------------------------------------------------------------------
(* Ordered dicts: sequences of <<key, value>> pairs with distinct keys *)

DictKeys(d) == {d[i][1] : i \in 1..Len(d)}

DictGet(d, key, default) ==
    IF key \in DictKeys(d)
    THEN (CHOOSE pair \in SeqRange(d) : pair[1] = key)[2]
    ELSE default

\* d[key] = value: an existing key keeps its place, a new key goes last.
DictSet(d, key, value) ==
    IF key \in DictKeys(d)
    THEN [i \in 1..Len(d) |-> IF d[i][1] = key THEN <<key, value>> ELSE d[i]]
    ELSE Append(d, <<key, value>>)

RECURSIVE DictSetAll(_, _)
DictSetAll(d, pairs) ==
    IF pairs = <<>> THEN d
    ELSE DictSetAll(DictSet(d, pairs[1][1], pairs[1][2]), Tail(pairs))

\* The mapping a dict denotes, whatever the order of its keys.
AsMapping(d) == SeqRange(d)

-----------------------------------------------------------------------------
(* Text: the strings that occur as column headers, with their characters, so
   that str.lower, str.replace and the substring test are computed *)

Spell ==
    ("Student ID" :> <<"S","t","u","d","e","n","t"," ","I","D">>) @@
    ("student_id" :> <<"s","t","u","d","e","n","t","_","i","d">>) @@
    ("Name" :> <<"N","a","m","e">>) @@
    ("name" :> <<"n","a","m","e">>) @@
    ("Marks" :> <<"M","a","r","k","s">>) @@
    ("Score" :> <<"S","c","o","r","e">>) @@
    ("score" :> <<"s","c","o","r","e">>) @@
    ("marks" :> <<"m","a","r","k","s">>) @@
    ("CCA" :> <<"C","C","A">>) @@
    ("cca" :> <<"c","c","a">>) @@
    ("Behavior" :> <<"B","e","h","a","v","i","o","r">>) @@
    ("behavior" :> <<"b","e","h","a","v","i","o","r">>) @@
    ("Activity" :> <<"A","c","t","i","v","i","t","y">>) @@
    ("activity" :> <<"a","c","t","i","v","i","t","y">>) @@
    ("Grade" :> <<"G","r","a","d","e">>) @@
    ("grade" :> <<"g","r","a","d","e">>) @@
    ("Remarks" :> <<"R","e","m","a","r","k","s">>) @@
    ("remarks" :> <<"r","e","m","a","r","k","s">>) @@
    ("Pupil" :> <<"P","u","p","i","l">>) @@
    ("pupil" :> <<"p","u","p","i","l">>) @@
    ("Learner" :> <<"L","e","a","r","n","e","r">>) @@
    ("learner" :> <<"l","e","a","r","n","e","r">>) @@
    ("Class" :> <<"C","l","a","s","s">>) @@
    ("class" :> <<"c","l","a","s","s">>) @@
    ("academic_score" :>
        <<"a","c","a","d","e","m","i","c","_","s","c","o","r","e">>) @@
    ("cocurricular_score" :>
        <<"c","o","c","u","r","r","i","c","u","l","a","r","_","s","c","o","r","e">>) @@
    ("discipline_score" :>
        <<"d","i","s","c","i","p","l","i","n","e","_","s","c","o","r","e">>) @@
    ("music" :> <<"m","u","s","i","c">>) @@
    ("Chess" :> <<"C","h","e","s","s">>) @@
    ("Drama, Chess" :> <<"D","r","a","m","a",","," ","C","h","e","s","s">>) @@
    ("A" :> <<"A">>) @@
    ("b" :> <<"b">>) @@
    ("85" :> <<"8","5">>) @@
    ("120" :> <<"1","2","0">>) @@
    ("abc" :> <<"a","b","c">>) @@
    ("" :> <<>>) @@
    ("10B" :> <<"1","0","B">>) @@
    ("red" :> <<"r","e","d">>) @@
    ("0" :> <<"0">>) @@
    ("S1" :> <<"S","1">>) @@
    ("s1" :> <<"s","1">>) @@
    ("Ann" :> <<"A","n","n">>) @@
    ("ann" :> <<"a","n","n">>) @@
    ("S2" :> <<"S","2">>) @@
    ("Bob" :> <<"B","o","b">>) @@
    ("S3" :> <<"S","3">>) @@
    ("S4" :> <<"S","4">>) @@
    ("Cy" :> <<"C","y">>) @@
    ("Di" :> <<"D","i">>) @@
    ("10A" :> <<"1","0","A">>) @@
    ("Unnamed: 0" :> <<"U","n","n","a","m","e","d",":"," ","0">>) @@
    ("Unnamed: 1" :> <<"U","n","n","a","m","e","d",":"," ","1">>) @@
    ("Unnamed: 2" :> <<"U","n","n","a","m","e","d",":"," ","2">>) @@
    ("Unnamed: 3" :> <<"U","n","n","a","m","e","d",":"," ","3">>) @@
    ("Unnamed: 4" :> <<"U","n","n","a","m","e","d",":"," ","4">>) @@
    ("unnamed:_0" :> <<"u","n","n","a","m","e","d",":","_","0">>) @@
    ("unnamed:_1" :> <<"u","n","n","a","m","e","d",":","_","1">>) @@
    ("unnamed:_2" :> <<"u","n","n","a","m","e","d",":","_","2">>) @@
    ("unnamed:_3" :> <<"u","n","n","a","m","e","d",":","_","3">>) @@
    ("unnamed:_4" :> <<"u","n","n","a","m","e","d",":","_","4">>)

\* The string with the given characters.
Unspell(chars) == CHOOSE x \in DOMAIN Spell : Spell[x] = chars

UpperCase ==
    <<"A","B","C","D","E","F","G","H","I","J","K","L","M",
      "N","O","P","Q","R","S","T","U","V","W","X","Y","Z">>

LowerCase ==
    <<"a","b","c","d","e","f","g","h","i","j","k","l","m",
      "n","o","p","q","r","s","t","u","v","w","x","y","z">>

LowerChar(ch) ==
    IF \E i \in 1..Len(UpperCase) : UpperCase[i] = ch
    THEN LowerCase[CHOOSE i \in 1..Len(UpperCase) : UpperCase[i] = ch]
    ELSE ch

\* str.lower() on the characters
lower(chars) == [i \in 1..Len(chars) |-> LowerChar(chars[i])]

\* str.replace(' ', '_') on the characters
replace_space(chars) ==
    [i \in 1..Len(chars) |-> IF chars[i] = " " THEN "_" ELSE chars[i]]

\* a in b, on the characters
InChars(a, b) ==
    \E i \in 1..(Len(b) - Len(a) + 1) : SubSeq(b, i, i + Len(a) - 1) = a

\* any(word in x for word in words), for the string x
ContainsAny(x, words) == \E word \in words : InChars(word, Spell[x])

\* next((col for col in columns if ...), None): the first column holding one
\* of the words, as <<col>>, or <<>> for None
FirstWith(columns, words) ==
    LET hits == SelectSeq(columns, LAMBDA col : ContainsAny(col, words))
    IN  IF hits = <<>> THEN <<>> ELSE <<hits[1]>>

-----------------------------------------------------------------------------
(* ExcelAdapter: the category tables and the translation of one cell *)

cca_mapping ==
    << << <<"M","U","S","I","C">>, 90 >>,
       << <<"D","R","A","M","A">>, 85 >>,
       << <<"S","P","O","R","T","S">>, 95 >>,
       << <<"A","R","T">>, 88 >>,
       << <<"D","E","S","I","G","N">>, 87 >>,
       << <<"D","A","N","C","E">>, 92 >>,
       << <<"D","E","B","A","T","E">>, 89 >>,
       << <<"C","O","D","I","N","G">>, 94 >> >>

behavior_mapping ==
    << << <<"A">>, 95 >>, << <<"B">>, 85 >>, << <<"C">>, 75 >>,
       << <<"D">>, 65 >>, << <<"E">>, 55 >>, << <<"O">>, 80 >>,
       << <<"X">>, 50 >> >>

\* The score given where nothing else is known.
DefaultScore == 70

UpperChar(ch) ==
    IF \E i \in 1..Len(LowerCase) : LowerCase[i] = ch
    THEN UpperCase[CHOOSE i \in 1..Len(LowerCase) : LowerCase[i] = ch]
    ELSE ch

\* str.upper() on the characters
upper(chars) == [i \in 1..Len(chars) |-> UpperChar(chars[i])]

\* str.strip() on the characters
RECURSIVE strip(_)
strip(chars) ==
    IF chars = <<>> THEN chars
    ELSE IF Head(chars) = " " THEN strip(Tail(chars))
    ELSE IF chars[Len(chars)] = " " THEN strip(SubSeq(chars, 1, Len(chars) - 1))
    ELSE chars

\* str.split(',') on the characters
RECURSIVE split_comma(_, _)
split_comma(current, chars) ==
    IF chars = <<>> THEN <<current>>
    ELSE IF Head(chars) = ","
    THEN <<current>> \o split_comma(<<>>, Tail(chars))
    ELSE split_comma(Append(current, Head(chars)), Tail(chars))

Digits == {"0","1","2","3","4","5","6","7","8","9"}

\* value.replace('.', '', 1).isdigit()
RemoveFirstDot(chars) ==
    IF \E i \in 1..Len(chars) : chars[i] = "."
    THEN LET i == CHOOSE i \in 1..Len(chars) :
                      chars[i] = "." /\ \A j \in 1..(i - 1) : chars[j] # "."
         IN  SubSeq(chars, 1, i - 1) \o SubSeq(chars, i + 1, Len(chars))
    ELSE chars

LooksNumericChars(chars) ==
    /\ RemoveFirstDot(chars) # <<>>
    /\ \A ch \in SeqRange(RemoveFirstDot(chars)) : ch \in Digits

LooksNumeric(cell) ==
    \/ cell.k = "num"
    \/ cell.k = "str" /\ LooksNumericChars(Spell[cell.s])

\* for key in mapping: if key in cat or cat in key: ...; the score of the first
\* such key, or the default
first_close_match(mapping, cat) ==
    LET hits == SelectSeq(mapping,
                    LAMBDA pair : InChars(pair[1], cat) \/ InChars(cat, pair[1]))
    IN  IF hits = <<>> THEN DefaultScore ELSE hits[1][2]

exact_match(mapping, chars) ==
    SelectSeq(mapping, LAMBDA pair : pair[1] = chars)

RECURSIVE SumSeq(_)
SumSeq(q) == IF q = <<>> THEN 0 ELSE Head(q) + SumSeq(Tail(q))

\* ExcelAdapter._process_cca_category on a string, given by its characters
process_cca_chars(chars) ==
    IF LooksNumericChars(chars) THEN Float(Str(Unspell(chars)))
    ELSE LET value == strip(upper(chars))
         IN  IF exact_match(cca_mapping, value) # <<>>
             THEN R(exact_match(cca_mapping, value)[1][2])
             ELSE IF "," \in SeqRange(value)
             THEN LET categories == split_comma(<<>>, value)
                      scores == [i \in 1..Len(categories) |->
                                    first_close_match(cca_mapping,
                                                      strip(categories[i]))]
                  IN  RDiv(R(SumSeq(scores)), R(Len(scores)))
             ELSE R(first_close_match(cca_mapping, value))

\* ExcelAdapter._process_cca_category on one cell; the result is a number.
process_cca_category(cell) ==
    IF cell.k = "num" THEN Float(cell)
    ELSE IF cell.k # "str" THEN R(DefaultScore)
    ELSE process_cca_chars(Spell[cell.s])

\* ExcelAdapter._process_behavior_category on one cell
process_behavior_category(cell) ==
    IF LooksNumeric(cell) THEN Float(cell)
    ELSE IF cell.k # "str" THEN R(DefaultScore)
    ELSE LET value == strip(upper(Spell[cell.s]))
         IN  IF exact_match(behavior_mapping, value) # <<>>
             THEN R(exact_match(behavior_mapping, value)[1][2])
             ELSE R(DefaultScore)

-----------------------------------------------------------------------------
(* The translation of category values on its own: the value is drawn at the
   start and _process_cca_category is applied to it. *)

MaxCategories == 3

SubCategoryPool ==
    { <<"M","U","S","I","C">>, <<"S","P","O","R","T","S">>,
      <<" ","d","r","a","m","a">>, <<"C","H","E","S","S">>,
      <<"M","U","S","I","C","A","L">>, <<"A","R">>, <<>>, <<" ">>,
      <<"8","5">> }

\* ",".join(categories)
RECURSIVE Join(_)
Join(categories) ==
    IF Len(categories) = 1 THEN categories[1]
    ELSE categories[1] \o <<",">> \o Join(Tail(categories))

CategoryValuePool ==
    { Join(categories) :
        categories \in UNION { [1..n -> SubCategoryPool] : n \in 1..MaxCategories } }

InitCategory ==
    /\ weights = DefaultWeights
    /\ grade_scale = DefaultGradeScale
    /\ students = <<>>
    /\ dataframe = None
    /\ probes = {}
    /\ \E value \in CategoryValuePool :
          call = [op |-> "_process_cca_category entered", arg |-> value,
                  ret |-> None, raised |-> FALSE]

ProcessCcaCategory ==
    /\ call.op = "_process_cca_category entered"
    /\ call' = [op |-> "_process_cca_category", arg |-> call.arg,
                ret |-> process_cca_chars(call.arg), raised |-> FALSE]
    /\ UNCHANGED <<weights, grade_scale, students, dataframe, probes>>

NextCategory == ProcessCcaCategory

SpecCategory == InitCategory /\ [][NextCategory]_vars

\* The score the table gives a sub-category: the mapped score when its
\* trimmed, upper-cased text is a code, 70 otherwise.
CodeScore(chars) ==
    IF exact_match(cca_mapping, strip(upper(chars))) # <<>>
    THEN exact_match(cca_mapping, strip(upper(chars)))[1][2]
    ELSE 70

\* C25 as claimed: for a comma-separated value the result is the mean, over
\* all sub-categories, of the mapped score of a sub-category that is a code
\* and 70 for one that is not, the empty sub-category included.
C25_CommaListIsMeanOfCodeScores ==
    (call.op = "_process_cca_category" /\ "," \in SeqRange(call.arg)) =>
        LET categories == split_comma(<<>>, call.arg)
            scores == [i \in 1..Len(categories) |-> CodeScore(categories[i])]
        IN  call.ret = RDiv(R(SumSeq(scores)), R(Len(scores)))

\* The example of the claim: "MUSIC,SPORTS" gives 92.5.
C25_MusicSportsExample ==
    (call.op = "_process_cca_category"
        /\ call.arg = <<"M","U","S","I","C",",","S","P","O","R","T","S">>) =>
        call.ret = <<185, 2>>

-----------------------------------------------------------------------------
(* ExcelAdapter: reading a sheet and normalizing it.  A sheet is its lines,
   each the cells of one line.  A frame is a table whose cells are kept by
   position, so that two columns may carry the same name after renaming. *)

EmptyFrame == [text |-> TRUE, columns |-> <<>>, rows |-> <<>>]

\* The name pandas gives the column at position j (from 1) for a header cell:
\* the text of a text cell, "Unnamed: j-1" for an empty one.  A header cell
\* holding a number gives a name that is no string (text is FALSE).
Unnamed ==
    <<"Unnamed: 0", "Unnamed: 1", "Unnamed: 2", "Unnamed: 3", "Unnamed: 4">>

HeaderName(cell, j) == IF cell.k = "str" THEN cell.s ELSE Unnamed[j]

\* pd.read_excel(path, skiprows=skiprows): the first line left is the header;
\* with no line left the result is an empty DataFrame.
read_excel(lines, skiprows) ==
    LET rest == SubSeq(lines, skiprows + 1, Len(lines))
    IN  IF rest = <<>> THEN EmptyFrame
        ELSE [text |-> \A j \in 1..Len(rest[1]) : rest[1][j].k # "num",
              columns |-> [j \in 1..Len(rest[1]) |-> HeaderName(rest[1][j], j)],
              rows |-> [i \in 1..(Len(rest) - 1) |->
                          [index |-> i - 1, cells |-> rest[i + 1]]]]

IdWords == {<<"i","d">>, <<"r","o","l","l">>}
StudentWords == IdWords \cup {<<"s","t","u","d","e","n","t">>}
NameWords == {<<"n","a","m","e">>}
AcadWords == {<<"a","c","a","d">>, <<"m","a","r","k">>, <<"s","c","o","r","e">>}
CcaWords == {<<"c","c","a">>, <<"c","o">>, <<"e","x","t","r","a">>}
BehaviorWords ==
    {<<"b","e","h","a","v">>, <<"d","i","s","c">>, <<"c","o","n","d","u","c","t">>}
AltAcadWords == {<<"m","a","r","k">>, <<"g","r","a","d","e">>}
AltCcaWords ==
    {<<"c","c","a">>, <<"a","c","t","i","v","i","t","y">>, <<"e","x","t","r","a">>}

\* ExcelAdapter._has_necessary_columns, for a frame whose column names are all
\* strings (col.lower() raises AttributeError for any other)
has_necessary_columns(df) ==
    LET potential == [j \in 1..Len(df.columns) |-> lower(Spell[df.columns[j]])]
        student_col == \E j \in 1..Len(potential) :
                           \E word \in StudentWords : InChars(word, potential[j])
        name_col == \E j \in 1..Len(potential) :
                        \E word \in NameWords : InChars(word, potential[j])
    IN  student_col /\ name_col /\ Len(df.columns) >= 5

\* The position of the first column with the name.
ColumnAt(df, col) == CHOOSE j \in 1..Len(df.columns) :
                         df.columns[j] = col /\ \A i \in 1..(j - 1) : df.columns[i] # col

\* df[col] = values, for a column the frame does not have: one more column
AddColumn(df, col, values) ==
    [df EXCEPT !.columns = Append(df.columns, col),
               !.rows = [i \in 1..Len(df.rows) |->
                            [df.rows[i] EXCEPT !.cells = Append(@, values[i])]]]

\* df[col] = f(df[col]), cell by cell, for a column the frame has once
SetColumn(df, col, values) ==
    [df EXCEPT !.rows = [i \in 1..Len(df.rows) |->
                            [df.rows[i] EXCEPT !.cells[ColumnAt(df, col)] = values[i]]]]

ColumnValues(df, col) ==
    [i \in 1..Len(df.rows) |-> df.rows[i].cells[ColumnAt(df, col)]]

\* One round of the loop "for col in [the five required columns]: if col not
\* in result_df.columns: ..."
ensure_column(df, col) ==
    IF col \in SeqRange(df.columns) THEN df
    ELSE LET n == Len(df.rows)
             alt_col == FirstWith(df.columns, AltAcadWords)
             cca_cols == FirstWith(df.columns, AltCcaWords)
             behavior_cols == FirstWith(df.columns, BehaviorWords)
         IN  CASE col = "academic_score" ->
                    IF alt_col # <<>>
                    THEN AddColumn(df, col, ColumnValues(df, alt_col[1]))
                    ELSE AddColumn(df, col, [i \in 1..n |-> Num(R(DefaultScore))])
               [] col = "cocurricular_score" ->
                    IF cca_cols # <<>>
                    THEN AddColumn(df, col,
                            [i \in 1..n |->
                                Num(process_cca_category(
                                        ColumnValues(df, cca_cols[1])[i]))])
                    ELSE AddColumn(df, col, [i \in 1..n |-> Num(R(DefaultScore))])
               [] col = "discipline_score" ->
                    IF behavior_cols # <<>>
                    THEN AddColumn(df, col,
                            [i \in 1..n |->
                                Num(process_behavior_category(
                                        ColumnValues(df, behavior_cols[1])[i]))])
                    ELSE AddColumn(df, col, [i \in 1..n |-> Num(R(DefaultScore))])
               [] col = "name" -> AddColumn(df, col, [i \in 1..n |-> Str("Unknown")])
               [] OTHER -> AddColumn(df, col, [i \in 1..n |-> Num(R(0))])

RECURSIVE ensure_columns(_, _)
ensure_columns(df, cols) ==
    IF cols = <<>> THEN df
    ELSE ensure_columns(ensure_column(df, Head(cols)), Tail(cols))

\* Mutant: nothing is filled.
fillna_nothing(cell) == cell

\* Series.fillna(70) on one cell
fillna(cell) == IF IsNull(cell) THEN Num(R(DefaultScore)) ELSE cell

\* pd.to_numeric(..., errors='coerce') then fillna(70), for each score column
RECURSIVE numeric_and_filled(_, _)
numeric_and_filled(df, cols) ==
    IF cols = <<>> THEN df
    ELSE numeric_and_filled(
             SetColumn(df, Head(cols),
                 [i \in 1..Len(df.rows) |->
                     fillna(to_numeric(ColumnValues(df, Head(cols))[i]))]),
             Tail(cols))

\* The text str() gives a whole number.
NumberText == (R(0) :> "0")

\* Series.astype(str) on one cell of the student_id column
astype_str(cell) == IF cell.k = "str" THEN cell ELSE Str(NumberText[cell.n])

\* result_df[[the five required columns] + [every other column]], with the
\* cells kept by column name
Keyed(df) ==
    LET others == SelectSeq(df.columns,
                            LAMBDA col : col \notin SeqRange(required_columns))
        cols == required_columns \o others
    IN  [columns |-> cols,
         rows |-> [i \in 1..Len(df.rows) |->
                     [index |-> df.rows[i].index,
                      cells |-> [c \in SeqRange(cols) |->
                                    df.rows[i].cells[ColumnAt(df, c)]]]]]

\* Some name is carried by two columns.
Duplicated(columns, col) ==
    \E i, j \in 1..Len(columns) : i # j /\ columns[i] = col /\ columns[j] = col

\* result_df.columns = [col.lower().replace(' ', '_') for col in ...]
standardize_columns(df) ==
    [df EXCEPT !.columns =
        [j \in 1..Len(df.columns) |->
            Unspell(replace_space(lower(Spell[df.columns[j]])))]]

\* The five columns found by keyword, each <<col>> or <<>> for None
identify_columns(columns) ==
    [student_id_col |-> FirstWith(columns, IdWords),
     name_col |-> FirstWith(columns, NameWords),
     acad_col |-> FirstWith(columns, AcadWords),
     cca_col |-> FirstWith(columns, CcaWords),
     behavior_col |-> FirstWith(columns, BehaviorWords)]

\* result_df.columns[0] or result_df.columns[1] raises IndexError
positional_raises(columns, found) ==
    \/ found.student_id_col = <<>> /\ Len(columns) < 1
    \/ found.name_col = <<>> /\ Len(columns) < 2

\* The dict column_mapping: a later entry for the same column replaces the
\* earlier one.
column_mapping(columns, found) ==
    DictSetAll(<<>>,
        << <<IF found.student_id_col = <<>> THEN columns[1]
             ELSE found.student_id_col[1], "student_id">>,
           <<IF found.name_col = <<>> THEN columns[2]
             ELSE found.name_col[1], "name">> >>
        \o (IF found.acad_col = <<>> THEN <<>>
            ELSE << <<found.acad_col[1], "academic_score">> >>)
        \o (IF found.cca_col = <<>> THEN <<>>
            ELSE << <<found.cca_col[1], "cocurricular_score">> >>)
        \o (IF found.behavior_col = <<>> THEN <<>>
            ELSE << <<found.behavior_col[1], "discipline_score">> >>))

\* result_df.rename(columns=column_mapping)
rename(df, mapping) ==
    [df EXCEPT !.columns =
        [j \in 1..Len(df.columns) |-> DictGet(mapping, df.columns[j], df.columns[j])]]

\* result_df.dropna(subset=['student_id', 'name'])
dropna_id_name(df) ==
    [df EXCEPT !.rows =
        SelectSeq(df.rows, LAMBDA r :
            /\ ~IsNull(r.cells[ColumnAt(df, "student_id")])
            /\ ~IsNull(r.cells[ColumnAt(df, "name")]))]

\* result_df['student_id'] = result_df['student_id'].astype(str)
student_id_as_text(df) ==
    SetColumn(df, "student_id",
        [i \in 1..Len(df.rows) |-> astype_str(ColumnValues(df, "student_id")[i])])

\* Lines 175 to 193, on the frame that has the required columns: TypeError
\* when pd.to_numeric is given a score name that two columns carry.
convert_and_order(df) ==
    IF \E col \in SeqRange(score_columns) : Duplicated(df.columns, col)
    THEN [raised |-> TRUE, table |-> EmptyTable]
    ELSE [raised |-> FALSE,
          table |-> clip_scores(Keyed(student_id_as_text(dropna_id_name(
                        numeric_and_filled(df, score_columns)))))]

\* Lines 113 to 193, on the frame with standardized column names and the
\* columns found: IndexError when the positional fallback names a column the
\* frame does not have.
rename_and_fill(df, found) ==
    IF positional_raises(df.columns, found)
    THEN [raised |-> TRUE, table |-> EmptyTable]
    ELSE convert_and_order(
             ensure_columns(rename(df, column_mapping(df.columns, found)),
                            required_columns))

\* Lines 113 to 193, on the frame with standardized column names
identify_and_fill(df) == rename_and_fill(df, identify_columns(df.columns))

\* ExcelAdapter._process_dataframe.  AttributeError when a column name is no
\* string (line 111).  An id or name carried by two columns does not occur
\* with the headers of the model.
process_dataframe(df) ==
    IF ~df.text THEN [raised |-> TRUE, table |-> EmptyTable]
    ELSE identify_and_fill(standardize_columns(df))

\* The loop "for i in range(1, 10)" of preprocess_excel from round i on: the
\* frame read last, or the first that has the necessary columns.  A frame
\* whose header holds a number makes _has_necessary_columns raise, which the
\* bare except passes over.
RECURSIVE retry_read(_, _, _)
retry_read(lines, i, df) ==
    IF i > 9 THEN df
    ELSE LET again == read_excel(lines, i)
         IN  IF again.text /\ has_necessary_columns(again) THEN again
             ELSE retry_read(lines, i + 1, again)

\* ExcelAdapter.preprocess_excel on the sheet of the file.  Every exception
\* leaves as Exception("Error preprocessing Excel file: ...").
preprocess_excel(lines) ==
    LET df == read_excel(lines, 0)
    IN  IF ~df.text THEN [raised |-> TRUE, table |-> EmptyTable]
        ELSE IF has_necessary_columns(df) THEN process_dataframe(df)
        ELSE process_dataframe(retry_read(lines, 1, df))

\* The number of retries made by the loop of preprocess_excel from round i on
RECURSIVE retry_count(_, _)
retry_count(lines, i) ==
    IF i > 9 THEN 0
    ELSE IF read_excel(lines, i).text /\ has_necessary_columns(read_excel(lines, i))
    THEN 1
    ELSE 1 + retry_count(lines, i + 1)

\* The number of times preprocess_excel parses the sheet
parse_count(lines) ==
    IF ~read_excel(lines, 0).text THEN 1
    ELSE IF has_necessary_columns(read_excel(lines, 0)) THEN 1
    ELSE 1 + retry_count(lines, 1)

\* temp_file_path = f"temp_{os.path.basename(file_path)}"
temp_file_path(name) == <<"temp_", name>>

\* with open(file_path, 'rb') as src, open(temp_file_path, 'wb') as dst:
\* dst.write(src.read()), on the names in the directory
copy_to_temp(disk, name) == disk \cup {temp_file_path(name)}

\* Mutant: the failure path leaves the copy where it is.
remove_temp_on_failure_skipped(disk, name) == disk

\* if temp_file_path and os.path.exists(temp_file_path):
\*     os.remove(temp_file_path), in the except block
remove_temp_on_failure(disk, name) == disk \ {temp_file_path(name)}

\* the same on the way to the normal return
remove_temp(disk, name) == disk \ {temp_file_path(name)}

\* ExcelAdapter.preprocess_excel on a file of the directory: the names in the
\* directory when control returns, the number of parses made, and the
\* outcome.  A file that is not there fails at the first open, before the
\* copy exists; a file that is no workbook fails at the first parse.
preprocess_excel_file(disk, file) ==
    IF file.name \notin disk
    THEN [raised |-> TRUE, table |-> EmptyTable, parses |-> 0,
          disk |-> remove_temp_on_failure(disk, file.name)]
    ELSE IF ~file.workbook
    THEN [raised |-> TRUE, table |-> EmptyTable, parses |-> 1,
          disk |-> remove_temp_on_failure(copy_to_temp(disk, file.name),
                                          file.name)]
    ELSE IF preprocess_excel(file.lines).raised
    THEN [raised |-> TRUE, table |-> EmptyTable,
          parses |-> parse_count(file.lines),
          disk |-> remove_temp_on_failure(copy_to_temp(disk, file.name),
                                          file.name)]
    ELSE [raised |-> FALSE, table |-> preprocess_excel(file.lines).table,
          parses |-> parse_count(file.lines),
          disk |-> remove_temp(copy_to_temp(disk, file.name), file.name)]

-----------------------------------------------------------------------------
(* DataProcessor._validate_and_clean_dataframe and load_data *)

\* Mutant: only the first absent column is reported.
missing_columns_first_only(df) ==
    LET absent == SelectSeq(required_columns,
                            LAMBDA col : col \notin SeqRange(df.columns))
    IN  IF absent = <<>> THEN <<>> ELSE <<absent[1]>>

\* [col for col in required_columns if col not in df.columns]
missing_columns(df) ==
    SelectSeq(required_columns, LAMBDA col : col \notin SeqRange(df.columns))

validate_and_clean_dataframe(df) ==
    IF missing_columns(df) # <<>>
    THEN [raised |-> TRUE, missing |-> missing_columns(df), table |-> EmptyTable]
    ELSE LET coerced == coerce_scores(df)
             kept == dropna(coerced, required_columns)
             clipped == clip_scores(kept)
         IN  [raised |-> FALSE, missing |-> <<>>, table |-> clipped]

\* load_data: a .csv file is read as it is, a .xlsx or .xls file goes through
\* the adapter, any other extension raises ValueError.
load_data(file) ==
    IF file.ext = "csv" THEN validate_and_clean_dataframe(file.table)
    ELSE IF file.ext \in {"xlsx", "xls"}
    THEN LET r == preprocess_excel(file.lines)
         IN  IF r.raised
             THEN [raised |-> TRUE, missing |-> <<>>, table |-> EmptyTable]
             ELSE validate_and_clean_dataframe(r.table)
    ELSE [raised |-> TRUE, missing |-> <<>>, table |-> EmptyTable]

-----------------------------------------------------------------------------
(* Student.to_dict, DataProcessor.students_to_dataframe and
   DataProcessor.dataframe_to_students *)

GradeCell(grade) == IF grade = NoGrade THEN NoneCell ELSE Str(grade)

ScoreCell(score) == IF score = None THEN NoneCell ELSE Num(score)

\* The required fields, then every optional attribute assigned by key.
to_dict(student) ==
    DictSetAll(
        << <<"student_id", student.student_id>>,
           <<"name", student.name>>,
           <<"academic_score", Num(student.academic_score)>>,
           <<"cocurricular_score", Num(student.cocurricular_score)>>,
           <<"discipline_score", Num(student.discipline_score)>>,
           <<"academic_grade", GradeCell(student.academic_grade)>>,
           <<"cocurricular_grade", GradeCell(student.cocurricular_grade)>>,
           <<"discipline_grade", GradeCell(student.discipline_grade)>>,
           <<"overall_score", ScoreCell(student.overall_score)>>,
           <<"overall_grade", GradeCell(student.overall_grade)>> >>,
        student.attributes)

\* The keys of the dicts in the order they first appear.
RECURSIVE KeysInOrder(_, _)
KeysInOrder(seen, pairs) ==
    IF pairs = <<>> THEN seen
    ELSE KeysInOrder(IF pairs[1][1] \in SeqRange(seen) THEN seen
                     ELSE Append(seen, pairs[1][1]),
                     Tail(pairs))

RECURSIVE ColumnsOfDicts(_, _)
ColumnsOfDicts(seen, dicts) ==
    IF dicts = <<>> THEN seen
    ELSE ColumnsOfDicts(KeysInOrder(seen, dicts[1]), Tail(dicts))

\* pd.DataFrame(list of dicts): a key a dict lacks gives a NaN cell.
students_to_dataframe(list) ==
    LET data == [i \in 1..Len(list) |-> to_dict(list[i])]
        cols == ColumnsOfDicts(<<>>, data)
    IN  [columns |-> cols,
         rows |-> [i \in 1..Len(list) |->
                     [index |-> i - 1,
                      cells |-> [c \in SeqRange(cols) |-> DictGet(data[i], c, NaN)]]]]

optional_columns(df) ==
    SelectSeq(df.columns, LAMBDA col : col \notin SeqRange(required_columns))

\* Student(student_id=..., **optional_fields) raises TypeError when a column
\* is named self (multiple values for the parameter self), and float() raises
\* ValueError for a string that is no number; with no row nothing is called.
dataframe_to_students_raises(df) ==
    /\ df.rows # <<>>
    /\ \/ "self" \in SeqRange(optional_columns(df))
       \/ \E i \in 1..Len(df.rows) : \E c \in SeqRange(score_columns) :
              df.rows[i].cells[c].k = "str" /\ ~IsNumeric(df.rows[i].cells[c])

dataframe_to_students(w, scale, df) ==
    LET opt == optional_columns(df)
        made == [i \in 1..Len(df.rows) |->
                    LET row == df.rows[i].cells
                    IN  Student_init(row["student_id"], row["name"],
                            Float(row["academic_score"]),
                            Float(row["cocurricular_score"]),
                            Float(row["discipline_score"]),
                            [j \in 1..Len(opt) |-> <<opt[j], row[opt[j]]>>])]
    IN  calculate_bulk_grades(w, scale, made)

-----------------------------------------------------------------------------
(* Input files: an extension and the table the reader parses from the file *)

AllColumns == required_columns \o <<"class", "self">>

Canonical == required_columns
WithClass == required_columns \o <<"class">>
WithSelf == required_columns \o <<"self">>
NoDiscipline ==
    <<"student_id", "name", "academic_score", "cocurricular_score">>
OnlyAcademic == <<"student_id", "name", "academic_score">>

\* A row given as <<student_id, name, academic, cocurricular, discipline>>
\* cells, cut to the columns of the layout.
MakeRow(layout, index, spec) ==
    LET full == [c \in SeqRange(AllColumns) |->
                    CASE c = "student_id" -> spec[1]
                      [] c = "name" -> spec[2]
                      [] c = "academic_score" -> spec[3]
                      [] c = "cocurricular_score" -> spec[4]
                      [] c = "discipline_score" -> spec[5]
                      [] c = "class" -> Str("10A")
                      [] c = "self" -> Str("x")]
    IN  [index |-> index, cells |-> [c \in SeqRange(layout) |-> full[c]]]

MakeTable(layout, specs) ==
    [columns |-> layout,
     rows |-> [i \in 1..Len(specs) |-> MakeRow(layout, i - 1, specs[i])]]

SeqsUpTo(S, n) == UNION {[1..k -> S] : k \in 0..n}

-----------------------------------------------------------------------------
(* Specification SpecLoad: DataProcessor.load_data on one file *)

LoadRowPool ==
    { <<Str("S1"), Str("Ann"), Num(R(-5)), Num(R(50)), Num(R(150))>>,
      <<Str("S2"), Str("Bob"), Num(R(150)), Num(R(-5)), Num(R(50))>>,
      <<Str("S3"), Str("Cy"), Num(R(50)), Num(R(150)), Num(R(-5))>>,
      <<Str("S4"), Str("Di"), Num(R(0)), Num(R(100)), Num(<<119, 2>>)>>,
      <<Str("S5"), Str("Ed"), Str("120"), Str("85"), Num(R(70))>>,
      <<Str("S6"), Str("Flo"), NaN, Num(R(50)), Num(R(50))>>,
      <<Str("S7"), Str("Gus"), Num(R(50)), Str("abc"), Num(R(150))>>,
      <<NaN, Str("Hal"), Num(R(50)), Num(R(50)), Num(R(50))>>,
      <<Str("S9"), NaN, Num(R(150)), Num(R(50)), Num(R(50))>> }

LoadFilePool ==
    { [ext |-> e, table |-> MakeTable(layout, specs)] :
        e \in {"csv", "txt"},
        layout \in {Canonical, WithClass, NoDiscipline, OnlyAcademic},
        specs \in SeqsUpTo(LoadRowPool, MaxRows) }

\* The call is entered with its file and returns a table or raises.
InitLoad ==
    /\ weights = DefaultWeights
    /\ grade_scale = DefaultGradeScale
    /\ students = <<>>
    /\ dataframe = None
    /\ probes = {}
    /\ \E file \in LoadFilePool :
          call = [op |-> "load_data entered", arg |-> file, ret |-> None,
                  raised |-> FALSE, missing |-> <<>>]

LoadData ==
    /\ call.op = "load_data entered"
    /\ LET r == load_data(call.arg)
       IN  call' = [op |-> "load_data", arg |-> call.arg, ret |-> r.table,
                    raised |-> r.raised, missing |-> r.missing]
    /\ UNCHANGED <<weights, grade_scale, students, dataframe, probes>>

NextLoad == LoadData

SpecLoad == InitLoad /\ [][NextLoad]_vars

\* The number a score cell of the input denotes.
InputValue(cell) == IF cell.k = "num" THEN cell.n ELSE NumericStrings[cell.s]

Clamped(v) ==
    IF RLt(v, R(0)) THEN R(0) ELSE IF RGt(v, R(100)) THEN R(100) ELSE v

\* An input row the validator has no reason other than range to drop.
Complete(row) ==
    /\ ~IsNull(row.cells["student_id"])
    /\ ~IsNull(row.cells["name"])
    /\ \A c \in SeqRange(score_columns) : IsNumeric(row.cells[c])

\* C10: every row the validator keeps has each score equal to 0 if the input
\* was below 0, 100 if it was above 100 and the input otherwise, so all
\* three are in [0,100]; and every complete input row is kept, whatever its
\* scores.
C10_ValidatorClamps ==
    (call.op = "load_data" /\ ~call.raised) =>
        /\ \A i \in 1..Len(call.ret.rows) :
              \E j \in 1..Len(call.arg.table.rows) :
                  /\ call.arg.table.rows[j].index = call.ret.rows[i].index
                  /\ \A c \in SeqRange(score_columns) :
                        LET out == call.ret.rows[i].cells[c]
                            in == call.arg.table.rows[j].cells[c]
                        IN  /\ out.k = "num"
                            /\ out.n = Clamped(InputValue(in))
                            /\ RLeq(R(0), out.n) /\ RLeq(out.n, R(100))
        /\ \A j \in 1..Len(call.arg.table.rows) :
              Complete(call.arg.table.rows[j]) =>
                  \E i \in 1..Len(call.ret.rows) :
                      call.ret.rows[i].index = call.arg.table.rows[j].index

\* A kept row whose input had a score below 0 and a score above 100.
C10_Witness ==
    /\ call.op = "load_data" /\ ~call.raised
    /\ \E i \in 1..Len(call.ret.rows) :
          \E j \in 1..Len(call.arg.table.rows) :
              /\ call.arg.table.rows[j].index = call.ret.rows[i].index
              /\ call.arg.table.rows[j].cells["academic_score"] = Num(R(-5))
              /\ call.ret.rows[i].cells["academic_score"] = Num(R(0))
              /\ call.arg.table.rows[j].cells["discipline_score"] = Num(R(150))
              /\ call.ret.rows[i].cells["discipline_score"] = Num(R(100))

\* The required columns the input table lacks.
AbsentColumns(df) ==
    {col \in SeqRange(required_columns) : col \notin SeqRange(df.columns)}

\* C11: on a CSV file the load fails with the schema error exactly when some
\* required column is absent from the input table; the error then names each
\* absent required column once and no other, and no table is returned.
C11_SchemaErrorNamesAbsentColumns ==
    (call.op = "load_data" /\ call.arg.ext = "csv") =>
        /\ call.raised <=> AbsentColumns(call.arg.table) # {}
        /\ call.raised =>
              /\ SeqRange(call.missing) = AbsentColumns(call.arg.table)
              /\ Len(call.missing) = Cardinality(AbsentColumns(call.arg.table))
              /\ call.ret = EmptyTable

\* A schema error that names two absent columns, for a table with rows.
C11_Witness ==
    /\ call.op = "load_data" /\ call.arg.ext = "csv" /\ call.raised
    /\ call.arg.table.rows # <<>>
    /\ call.missing = <<"cocurricular_score", "discipline_score">>

\* C12: the validated table holds exactly the input rows with student_id and
\* name present and all three scores numeric or coercible, in their input
\* order, each with its own id, name and optional cells; no other row is
\* kept and no cell is defaulted.
C12_ValidatorKeepsCompleteRowsInOrder ==
    (call.op = "load_data" /\ ~call.raised) =>
        LET expected == SelectSeq(call.arg.table.rows, Complete)
        IN  /\ Len(call.ret.rows) = Len(expected)
            /\ \A i \in 1..Len(expected) :
                  /\ call.ret.rows[i].index = expected[i].index
                  /\ \A c \in SeqRange(call.arg.table.columns) :
                        IF c \in SeqRange(score_columns)
                        THEN call.ret.rows[i].cells[c].k = "num"
                        ELSE call.ret.rows[i].cells[c] = expected[i].cells[c]

\* A table whose first row has a score that is no number and is dropped, and
\* whose second row is kept; and one with a row lacking its id.
C12_Witness ==
    /\ call.op = "load_data" /\ ~call.raised
    /\ Len(call.arg.table.rows) = 2
    /\ \/ call.arg.table.rows[1].cells["cocurricular_score"] = Str("abc")
       \/ IsNull(call.arg.table.rows[1].cells["student_id"])
    /\ Len(call.ret.rows) = 1
    /\ call.ret.rows[1].index = 1

-----------------------------------------------------------------------------
(* Specification SpecSheet: DataProcessor.load_data on one spreadsheet, or on
   one CSV file with the same rows *)

\* Headers of a sheet, each with the field of the row it shows: 1 the id,
\* 2 the name, 3 the academic, 4 the co-curricular, 5 the discipline value,
\* 6 the class.
Typical ==
    << <<"Student ID", 1>>, <<"Name", 2>>, <<"Marks", 3>>, <<"CCA", 4>>,
       <<"Behavior", 5>> >>
CanonicalNames ==
    << <<"student_id", 1>>, <<"name", 2>>, <<"academic_score", 3>>,
       <<"cocurricular_score", 4>>, <<"discipline_score", 5>> >>
NoMarks ==
    << <<"Student ID", 1>>, <<"Name", 2>>, <<"Class", 6>>, <<"CCA", 4>>,
       <<"Behavior", 5>> >>
OneColumn == << <<"Marks", 3>> >>
TwoColumns == << <<"Pupil", 1>>, <<"Learner", 2>> >>
\* the academic column is named Score
Scores ==
    << <<"Student ID", 1>>, <<"Name", 2>>, <<"Score", 3>>, <<"CCA", 4>>,
       <<"Behavior", 5>> >>
\* the co-curricular column holds category codes, the behavior column letters
Coded ==
    << <<"Student ID", 1>>, <<"Name", 2>>, <<"Marks", 3>>, <<"CCA", 7>>,
       <<"Behavior", 8>> >>
CodedActivity ==
    << <<"Student ID", 1>>, <<"Name", 2>>, <<"Marks", 3>>, <<"Activity", 7>>,
       <<"Behavior", 8>> >>

\* The fields of a row: id, name, three scores, class, category, letter.
SheetRowPool ==
    { <<Str("S1"), Str("Ann"), Num(R(85)), Num(R(75)), Num(R(90)), Str("10A"),
        Str("music"), Str("A")>>,
      <<Str("S2"), Str("Bob"), NaN, Num(R(75)), Num(R(150)), Str("10A"),
        Str("Chess"), Str("b")>>,
      <<Str("S3"), Str("Cy"), Str("abc"), NaN, Num(R(-5)), Str("10A"),
        NaN, NaN>>,
      <<NaN, Str("Di"), Num(R(60)), Num(R(60)), Num(R(60)), Str("10A"),
        Str("Drama, Chess"), Str("A")>> }

\* The lines of the sheet: the header line, then one line for each row.
MakeLines(layout, specs) ==
    << [j \in 1..Len(layout) |-> Str(layout[j][1])] >>
    \o [i \in 1..Len(specs) |-> [j \in 1..Len(layout) |-> specs[i][layout[j][2]]]]

SheetFilePool ==
    { [ext |-> "xlsx", lines |-> MakeLines(layout, specs)] :
        layout \in {Typical, CanonicalNames, NoMarks, OneColumn, TwoColumns,
                    Scores, Coded, CodedActivity},
        specs \in SeqsUpTo(SheetRowPool, MaxRows) }
    \cup
    { [ext |-> "csv", table |-> MakeTable(Canonical, specs)] :
        specs \in SeqsUpTo(SheetRowPool, MaxRows) }

InitSheet ==
    /\ weights = DefaultWeights
    /\ grade_scale = DefaultGradeScale
    /\ students = <<>>
    /\ dataframe = None
    /\ probes = {}
    /\ \E file \in SheetFilePool :
          call = [op |-> "load_data entered", arg |-> file, ret |-> None,
                  raised |-> FALSE, missing |-> <<>>]

SpecSheet == InitSheet /\ [][NextLoad]_vars

\* The index labels of the rows of a table.
Indexes(df) == {df.rows[i].index : i \in 1..Len(df.rows)}

\* The positions of the sheet's header line that show the text.
HeaderPositions(lines, text) ==
    {p \in 1..Len(lines[1]) : lines[1][p] = Str(text)}

\* The row of the table with the index label.
RowOf(df, index) == CHOOSE r \in SeqRange(df.rows) : r.index = index

\* C13 as stated: on the CSV path and on the spreadsheet path alike, a row
\* whose academic column exists and whose academic cell is empty is not in
\* the returned table.
C13_EmptyAcademicCellExcludesRow ==
    (call.op = "load_data" /\ ~call.raised) =>
        IF call.arg.ext = "csv"
        THEN \A j \in 1..Len(call.arg.table.rows) :
                 IsNull(call.arg.table.rows[j].cells["academic_score"]) =>
                     call.arg.table.rows[j].index \notin Indexes(call.ret)
        ELSE \A p \in HeaderPositions(call.arg.lines, "Marks") :
                 \A i \in 2..Len(call.arg.lines) :
                     IsNull(call.arg.lines[i][p]) =>
                         (i - 2) \notin Indexes(call.ret)

\* C13 amended: on the CSV path a row with an empty academic cell is not in
\* the returned table.  On the spreadsheet path every row with an id and a
\* name is in the returned table; its academic score is the clamped number
\* of its academic cell, or 70 when that cell is empty or no number, or 70
\* when the sheet has no academic column.
C13_EmptyAcademicCellByPath ==
    (call.op = "load_data" /\ ~call.raised) =>
        IF call.arg.ext = "csv"
        THEN \A j \in 1..Len(call.arg.table.rows) :
                 IsNull(call.arg.table.rows[j].cells["academic_score"]) =>
                     call.arg.table.rows[j].index \notin Indexes(call.ret)
        ELSE \A i \in 2..Len(call.arg.lines) :
                 LET line == call.arg.lines[i]
                     marks == HeaderPositions(call.arg.lines, "Marks")
                     ids == HeaderPositions(call.arg.lines, "Student ID")
                     names == HeaderPositions(call.arg.lines, "Name")
                 IN  (/\ \A p \in ids : ~IsNull(line[p])
                      /\ \A p \in names : ~IsNull(line[p]))
                     => /\ (i - 2) \in Indexes(call.ret)
                        /\ LET out == RowOf(call.ret, i - 2).cells["academic_score"]
                           IN  /\ \A p \in marks :
                                     out = IF IsNumeric(line[p])
                                           THEN Num(Clamped(InputValue(line[p])))
                                           ELSE Num(R(70))
                               /\ marks = {} => out = Num(R(70))

\* A sheet with an academic column and a row whose academic cell is empty:
\* the row is returned with the academic score 70.
C13_Witness ==
    /\ call.op = "load_data" /\ ~call.raised /\ call.arg.ext = "xlsx"
    /\ \E p \in HeaderPositions(call.arg.lines, "Marks") :
          \E i \in 2..Len(call.arg.lines) :
              /\ call.arg.lines[i][p] = NaN
              /\ (i - 2) \in Indexes(call.ret)
              /\ RowOf(call.ret, i - 2).cells["academic_score"] = Num(R(70))

\* C20: for every sheet, whatever the names and the number of its columns,
\* the load through the normalizer does not fail and the returned table has
\* the five canonical columns.
C20_NormalizerNeverFails ==
    (call.op = "load_data" /\ call.arg.ext = "xlsx") =>
        /\ ~call.raised
        /\ SeqRange(required_columns) \subseteq SeqRange(call.ret.columns)

\* The lines of the sheet that the normalizer keeps: those with an id and a
\* name.
KeptLines(lines) ==
    {i \in 2..Len(lines) :
        /\ \A p \in HeaderPositions(lines, "Student ID") : ~IsNull(lines[i][p])
        /\ \A p \in HeaderPositions(lines, "Name") : ~IsNull(lines[i][p])}

\* The translation of a category cell through a table: a number as it is,
\* the mapped score of a code (trimmed, in any case), 70 for anything else.
Translation(mapping, cell) ==
    IF IsNumeric(cell) THEN Clamped(InputValue(cell))
    ELSE IF cell.k = "str"
            /\ exact_match(mapping, strip(upper(Spell[cell.s]))) # <<>>
    THEN R(exact_match(mapping, strip(upper(Spell[cell.s])))[1][2])
    ELSE R(70)

\* C21 as claimed: the cocurricular_score of each row is the translation of
\* the cell of the co-curricular column (named CCA or Activity), and the
\* discipline_score the translation of the letter of the behavior column.
\* (Cells that list several categories are left to C25.)
C21_CategoryColumnsAreTranslated ==
    (call.op = "load_data" /\ ~call.raised /\ call.arg.ext = "xlsx") =>
        \A i \in KeptLines(call.arg.lines) :
            LET line == call.arg.lines[i]
                out == RowOf(call.ret, i - 2).cells
            IN  /\ \A p \in HeaderPositions(call.arg.lines, "CCA")
                          \cup HeaderPositions(call.arg.lines, "Activity") :
                      (line[p].k = "str" => "," \notin SeqRange(Spell[line[p].s]))
                      => out["cocurricular_score"] =
                             Num(Translation(cca_mapping, line[p]))
                /\ \A p \in HeaderPositions(call.arg.lines, "Behavior") :
                      out["discipline_score"] =
                          Num(Translation(behavior_mapping, line[p]))

\* The half of C21 that the code does: a column named Activity is
\* translated.
C21_ActivityColumnIsTranslated ==
    (call.op = "load_data" /\ ~call.raised /\ call.arg.ext = "xlsx") =>
        \A i \in KeptLines(call.arg.lines) :
            \A p \in HeaderPositions(call.arg.lines, "Activity") :
                (call.arg.lines[i][p].k = "str"
                    => "," \notin SeqRange(Spell[call.arg.lines[i][p].s]))
                => RowOf(call.ret, i - 2).cells["cocurricular_score"] =
                       Num(Translation(cca_mapping, call.arg.lines[i][p]))

\* The header positions whose lowercased name holds an academic keyword and
\* none of the co-curricular keywords.
AcademicPositions(lines) ==
    {p \in 1..Len(lines[1]) :
        /\ lines[1][p].k = "str"
        /\ \E word \in AcadWords : InChars(word, lower(Spell[lines[1][p].s]))
        /\ \A word \in AltCcaWords : ~InChars(word, lower(Spell[lines[1][p].s]))}

\* C24 as claimed: a column whose name holds an academic keyword and none of
\* the co-curricular keywords supplies the academic_score of each row.
C24_AcademicColumnSuppliesAcademicScore ==
    (call.op = "load_data" /\ ~call.raised /\ call.arg.ext = "xlsx") =>
        \A i \in KeptLines(call.arg.lines) :
            \A p \in AcademicPositions(call.arg.lines) :
                IsNumeric(call.arg.lines[i][p]) =>
                    RowOf(call.ret, i - 2).cells["academic_score"] =
                        Num(Clamped(InputValue(call.arg.lines[i][p])))

-----------------------------------------------------------------------------
(* Specification SpecDetect: preprocess_excel on sheets whose header line
   comes after title lines, on files that are missing or no workbook, with
   the names of the files in the working directory *)

MaxTitleLines == 2

\* A title line as wide as the sheet: a text alone, or a text and a number.
TitleOnly(width) ==
    [j \in 1..width |-> IF j = 1 THEN Str("Remarks") ELSE NaN]
TitleAndNumber(width) ==
    [j \in 1..width |-> IF j = 1 THEN Str("Class")
                        ELSE IF j = 2 THEN Num(R(85)) ELSE NaN]

TitleLines(width) ==
    UNION { [1..n -> {TitleOnly(width), TitleAndNumber(width)}] :
              n \in 0..MaxTitleLines }

DetectFilePool ==
    UNION { { [name |-> "marks.xlsx", workbook |-> TRUE,
               lines |-> titles \o MakeLines(layout, specs)] :
                titles \in TitleLines(Len(layout)),
                specs \in SeqsUpTo(SheetRowPool, MaxRows) } :
            layout \in {Typical, NoMarks, TwoColumns} }
    \cup { [name |-> "marks.xlsx", workbook |-> FALSE, lines |-> <<>>] }

InitDetect ==
    /\ weights = DefaultWeights
    /\ grade_scale = DefaultGradeScale
    /\ students = <<>>
    /\ dataframe = None
    /\ probes = {}
    /\ \E file \in DetectFilePool, disk \in {{}, {"marks.xlsx"}} :
          call = [op |-> "preprocess_excel entered", arg |-> file,
                  ret |-> None, raised |-> FALSE, parses |-> 0, disk |-> disk]

PreprocessExcel ==
    /\ call.op = "preprocess_excel entered"
    /\ LET r == preprocess_excel_file(call.disk, call.arg)
       IN  call' = [op |-> "preprocess_excel", arg |-> call.arg,
                    ret |-> r.table, raised |-> r.raised,
                    parses |-> r.parses, disk |-> r.disk]
    /\ UNCHANGED <<weights, grade_scale, students, dataframe, probes>>

NextDetect == PreprocessExcel

SpecDetect == InitDetect /\ [][NextDetect]_vars

\* The parse has an id-like and a name-like column among at least five.
IsLayout(df) == df.text /\ has_necessary_columns(df)

\* The number of rows skipped by the parse the claim says is used: the first
\* of 0..9 that has the layout, or 9.
ClaimedSkip(lines) ==
    IF \E k \in 0..9 : IsLayout(read_excel(lines, k))
    THEN CHOOSE k \in 0..9 :
             /\ IsLayout(read_excel(lines, k))
             /\ \A j \in 0..(k - 1) : ~IsLayout(read_excel(lines, j))
    ELSE 9

\* The call was made on a workbook that is in the directory.
Parsed == call.op = "preprocess_excel" /\ call.arg.workbook /\ call.disk # {}

\* C26 as claimed: at most ten parses are made; the parses go on to the
\* first one that has the layout, which is the one processed, and when none
\* has it the last one is processed.
C26_DetectionUsesFirstLayoutParse ==
    Parsed =>
        /\ call.parses <= 10
        /\ call.parses = ClaimedSkip(call.arg.lines) + 1
        /\ LET used == process_dataframe(
                           read_excel(call.arg.lines, ClaimedSkip(call.arg.lines)))
           IN  /\ call.raised = used.raised
               /\ ~call.raised => call.ret = used.table

\* The same for the sheets whose first line holds no number: the part of
\* C26 the code does.
C26_DetectionOnTextFirstLine ==
    (Parsed /\ read_excel(call.arg.lines, 0).text) =>
        /\ call.parses <= 10
        /\ call.parses = ClaimedSkip(call.arg.lines) + 1
        /\ LET used == process_dataframe(
                           read_excel(call.arg.lines, ClaimedSkip(call.arg.lines)))
           IN  /\ call.raised = used.raised
               /\ ~call.raised => call.ret = used.table

\* C30: when preprocess_excel returns or fails, the temporary copy is not
\* in the directory.
C30_TemporaryCopyIsRemoved ==
    call.op = "preprocess_excel" =>
        temp_file_path(call.arg.name) \notin call.disk

\* The copy was made and the processing failed.
C30_Witness ==
    /\ call.op = "preprocess_excel" /\ call.raised
    /\ call.arg.workbook /\ call.parses = 10
    /\ call.disk = {"marks.xlsx"}

-----------------------------------------------------------------------------
(* Specification SpecIO: the upload handler of app.py and the conversion of
   the session's records to a table and back *)

IORowPool ==
    { <<Str("S1"), Str("Ann"), Num(R(85)), Num(R(75)), Num(R(90))>>,
      <<Str("S2"), Str("Bob"), Num(R(150)), Num(R(-5)), Num(R(120))>> }

IOFilePool ==
    { [ext |-> "csv", table |-> MakeTable(layout, specs)] :
        layout \in {Canonical, WithClass, WithSelf, NoDiscipline},
        specs \in SeqsUpTo(IORowPool, MaxRows) }
    \cup
    { [ext |-> "txt", table |-> MakeTable(Canonical, specs)] :
        specs \in SeqsUpTo(IORowPool, MaxRows) }

\* The body of "if uploaded_file is not None": load_data, then the table is
\* stored, then the records are built and stored; an exception at any step
\* leaves the try block with what was stored so far.
Upload(file) ==
    LET loaded == load_data(file)
    IN  IF loaded.raised
        THEN /\ call' = [op |-> "upload", arg |-> None, ret |-> None,
                         raised |-> TRUE]
             /\ UNCHANGED <<weights, grade_scale, students, dataframe, probes>>
        ELSE /\ dataframe' = <<loaded.table>>
             /\ IF dataframe_to_students_raises(loaded.table)
                THEN /\ call' = [op |-> "upload", arg |-> None, ret |-> None,
                                 raised |-> TRUE]
                     /\ UNCHANGED students
                ELSE /\ students' = dataframe_to_students(weights, grade_scale,
                                                          loaded.table)
                     /\ call' = [op |-> "upload", arg |-> None, ret |-> None,
                                 raised |-> FALSE]
             /\ UNCHANGED <<weights, grade_scale, probes>>

\* dataframe_to_students(students_to_dataframe(students))
RoundTrip ==
    /\ ~dataframe_to_students_raises(students_to_dataframe(students))
    /\ students' = dataframe_to_students(weights, grade_scale,
                                         students_to_dataframe(students))
    /\ call' = [op |-> "round_trip", arg |-> students, ret |-> None,
                raised |-> FALSE]
    /\ UNCHANGED <<weights, grade_scale, dataframe, probes>>

NextIO ==
    \/ \E file \in IOFilePool : Upload(file)
    \/ RoundTrip

SpecIO == InitBase /\ [][NextIO]_vars

\* C8 as claimed: the records after the round trip have the student_id, name,
\* raw scores, extra-attribute mapping and derived fields of the originals.
C8_RoundTripPreservesRecords ==
    call.op = "round_trip" =>
        /\ Len(students) = Len(call.arg)
        /\ \A i \in 1..Len(students) :
              /\ students[i].student_id = call.arg[i].student_id
              /\ students[i].name = call.arg[i].name
              /\ students[i].academic_score = call.arg[i].academic_score
              /\ students[i].cocurricular_score = call.arg[i].cocurricular_score
              /\ students[i].discipline_score = call.arg[i].discipline_score
              /\ AsMapping(students[i].attributes) =
                     AsMapping(call.arg[i].attributes)
              /\ students[i].overall_score = call.arg[i].overall_score
              /\ students[i].academic_grade = call.arg[i].academic_grade
              /\ students[i].cocurricular_grade = call.arg[i].cocurricular_grade
              /\ students[i].discipline_grade = call.arg[i].discipline_grade
              /\ students[i].overall_grade = call.arg[i].overall_grade

\* The records are those built from the rows of the table, one per row.
RecordsMatchTable(df, list) ==
    /\ Len(list) = Len(df.rows)
    /\ \A i \in 1..Len(list) :
          /\ list[i].student_id = df.rows[i].cells["student_id"]
          /\ list[i].name = df.rows[i].cells["name"]
          /\ \A c \in SeqRange(score_columns) :
                Num(list[i][c]) = df.rows[i].cells[c]
          /\ \A c \in SeqRange(optional_columns(df)) :
                <<c, df.rows[i].cells[c]>> \in AsMapping(list[i].attributes)

\* C9 as claimed: the stored table and the stored records come from the same
\* load: no table and no record, or the records of the rows of the table.
C9_TableAndRecordsFromSameLoad ==
    IF dataframe = None THEN students = <<>>
    ELSE RecordsMatchTable(dataframe[1], students)

\* C28: with the default weights and scale, every record built from a loaded
\* table has an overall_score between 0 and 100 and an overall_grade that is
\* a label of the default scale.
C28_LoadedRecordsScoreInRange ==
    (call.op = "upload" /\ ~call.raised) =>
        \A i \in 1..Len(students) :
            /\ students[i].overall_score # None
            /\ InUnitRange(students[i].overall_score)
            /\ students[i].overall_grade \in Range(DefaultGradeScale)

\* A load with a row whose scores in the file were 150, -5 and 120: they
\* are limited to 100, 0 and 100, and 60 + 0 + 15 = 75.
C28_Witness ==
    /\ call.op = "upload" /\ ~call.raised
    /\ weights = DefaultWeights /\ grade_scale = DefaultGradeScale
    /\ \E i \in 1..Len(students) :
          /\ students[i].name = Str("Bob")
          /\ students[i].academic_score = R(100)
          /\ students[i].cocurricular_score = R(0)
          /\ students[i].overall_score = R(75)
          /\ students[i].overall_grade = "C"

\* C23 as claimed: after a load no two records have the same student_id.
C23_LoadedIdsAreUnique ==
    (call.op = "upload" /\ ~call.raised) =>
        \A i, j \in 1..Len(students) :
            i # j => students[i].student_id # students[j].student_id

-----------------------------------------------------------------------------
(* Python comparison of the values a record holds: == between any two
   values, < between two numbers or two strings (TypeError otherwise) *)

\* The characters of the model in code point order.
CodeOrder ==
    <<" ", ",", "0", "1", "2", "3", "4", "5", "6", "7", "8", "9", ":">>
    \o UpperCase \o <<"_">> \o LowerCase

CharRank(ch) == CHOOSE i \in 1..Len(CodeOrder) : CodeOrder[i] = ch

\* a < b for two strings, on the characters
RECURSIVE StrLess(_, _)
StrLess(a, b) ==
    IF b = <<>> THEN FALSE
    ELSE IF a = <<>> THEN TRUE
    ELSE IF Head(a) = Head(b) THEN StrLess(Tail(a), Tail(b))
    ELSE CharRank(Head(a)) < CharRank(Head(b))

\* a == b
PyEq(a, b) ==
    \/ a.k = "num" /\ b.k = "num" /\ a.n = b.n
    \/ a.k = "str" /\ b.k = "str" /\ a.s = b.s
    \/ a.k = "none" /\ b.k = "none"

\* a < b does not raise: both are numbers or both are strings
Comparable(a, b) ==
    \/ a.k \in {"num", "nan"} /\ b.k \in {"num", "nan"}
    \/ a.k = "str" /\ b.k = "str"

\* a < b, for comparable a and b
PyLess(a, b) ==
    IF a.k = "str" THEN StrLess(Spell[a.s], Spell[b.s])
    ELSE a.k = "num" /\ b.k = "num" /\ RLt(a.n, b.n)

-----------------------------------------------------------------------------
(* Student.get_attribute, DataProcessor.filter_students and
   DataProcessor.sort_students *)

\* self.attributes.get(key, default)
get_attribute(student, key, default) == DictGet(student.attributes, key, default)

\* A filter value: a number, a string or None as a cell, or a collection of
\* grade labels.
Val(cell) == [k |-> cell.k, n |-> cell.n, s |-> cell.s, labels |-> {}]
Labels(S) == [k |-> "labels", n |-> R(0), s |-> "", labels |-> S]

ScoreKeys ==
    {"min_academic_score", "min_cocurricular_score", "min_discipline_score",
     "min_overall_score", "max_academic_score", "max_cocurricular_score",
     "max_discipline_score", "max_overall_score"}

AttributeKeys == {"class", "section", "batch", "gender"}

\* The score a min_ or max_ key compares, as a cell (None for a record that
\* is not graded).
ScoreOf(student, key) ==
    CASE key \in {"min_academic_score", "max_academic_score"} ->
            Num(student.academic_score)
      [] key \in {"min_cocurricular_score", "max_cocurricular_score"} ->
            Num(student.cocurricular_score)
      [] key \in {"min_discipline_score", "max_discipline_score"} ->
            Num(student.discipline_score)
      [] OTHER -> ScoreCell(student.overall_score)

IsMinKey(key) ==
    key \in {"min_academic_score", "min_cocurricular_score",
             "min_discipline_score", "min_overall_score"}

\* The grade of a record as the value == sees.
GradeValue(grade) == IF grade = NoGrade THEN NoneCell ELSE Str(grade)

\* Mutant: a key that is none of the named ones is matched against the
\* optional attributes.
filter_keeps_any_attribute(student, key, value) ==
    CASE key \in ScoreKeys ->
            IF IsMinKey(key) THEN RGeq(ScoreOf(student, key).n, value.n)
            ELSE RLeq(ScoreOf(student, key).n, value.n)
      [] key = "grade" -> PyEq(GradeValue(student.overall_grade), value)
      [] OTHER -> PyEq(get_attribute(student, key, NoneCell), value)

\* Mutant: the key grade is compared with the academic grade.
filter_keeps_academic_grade(student, key, value) ==
    CASE key \in ScoreKeys ->
            IF IsMinKey(key) THEN RGeq(ScoreOf(student, key).n, value.n)
            ELSE RLeq(ScoreOf(student, key).n, value.n)
      [] key = "grade" -> PyEq(GradeValue(student.academic_grade), value)
      [] key \in AttributeKeys ->
            PyEq(get_attribute(student, key, NoneCell), value)
      [] OTHER -> TRUE

\* Mutant: the bounds are exclusive.
filter_keeps_exclusive(student, key, value) ==
    CASE key \in ScoreKeys ->
            IF IsMinKey(key) THEN RGt(ScoreOf(student, key).n, value.n)
            ELSE RLt(ScoreOf(student, key).n, value.n)
      [] key = "grade" -> PyEq(GradeValue(student.overall_grade), value)
      [] key \in AttributeKeys ->
            PyEq(get_attribute(student, key, NoneCell), value)
      [] OTHER -> TRUE

\* The condition of the list comprehension of one branch of the if/elif
\* chain, for a record and value it does not raise on; a key of no branch
\* keeps every record.
filter_keeps(student, key, value) ==
    CASE key \in ScoreKeys ->
            IF IsMinKey(key) THEN RGeq(ScoreOf(student, key).n, value.n)
            ELSE RLeq(ScoreOf(student, key).n, value.n)
      [] key = "grade" -> PyEq(GradeValue(student.overall_grade), value)
      [] key \in AttributeKeys ->
            PyEq(get_attribute(student, key, NoneCell), value)
      [] OTHER -> TRUE

\* s.score >= value raises TypeError unless both are numbers.
filter_raises(student, key, value) ==
    /\ key \in ScoreKeys
    /\ ~(ScoreOf(student, key).k = "num" /\ value.k \in {"num", "nan"})

\* The loop "for key, value in filters.items()" from the given items on.
RECURSIVE filter_items(_, _)
filter_items(filtered_students, items) ==
    IF items = <<>> THEN [raised |-> FALSE, result |-> filtered_students]
    ELSE LET key == items[1][1]
             value == items[1][2]
         IN  IF \E i \in 1..Len(filtered_students) :
                    filter_raises(filtered_students[i], key, value)
             THEN [raised |-> TRUE, result |-> <<>>]
             ELSE filter_items(
                      SelectSeq(filtered_students,
                                LAMBDA st : /\ value.k # "nan"
                                            /\ filter_keeps(st, key, value)),
                      Tail(items))

\* DataProcessor.filter_students: the input list as the call leaves it, and
\* the list returned.
filter_students(list, filters) ==
    LET r == filter_items(list, filters)
    IN  [students |-> list, raised |-> r.raised, result |-> r.result]

NamedFields ==
    {"academic_score", "cocurricular_score", "discipline_score",
     "overall_score", "name", "student_id"}

\* The key function of the branch of sort_by
sort_key(student, sort_by) ==
    CASE sort_by = "academic_score" -> Num(student.academic_score)
      [] sort_by = "cocurricular_score" -> Num(student.cocurricular_score)
      [] sort_by = "discipline_score" -> Num(student.discipline_score)
      [] sort_by = "overall_score" -> ScoreCell(student.overall_score)
      [] sort_by = "name" -> student.name
      [] sort_by = "student_id" -> student.student_id
      [] OTHER -> get_attribute(student, sort_by, Str(""))

\* Mutant: the direction is not looked at.
InsertBefore_ascending_only(x, y, sort_by, ascending) ==
    PyLess(sort_key(x, sort_by), sort_key(y, sort_by))

\* x goes before y when x is put into the sorted list after y was
InsertBefore(x, y, sort_by, ascending) ==
    IF ascending THEN PyLess(sort_key(x, sort_by), sort_key(y, sort_by))
    ELSE PyLess(sort_key(y, sort_by), sort_key(x, sort_by))

\* The sorted list with x put before the first record it goes before.
Insert(done, x, sort_by, ascending) ==
    IF \E i \in 1..Len(done) : InsertBefore(x, done[i], sort_by, ascending)
    THEN LET i == CHOOSE i \in 1..Len(done) :
                      /\ InsertBefore(x, done[i], sort_by, ascending)
                      /\ \A j \in 1..(i - 1) :
                            ~InsertBefore(x, done[j], sort_by, ascending)
         IN  SubSeq(done, 1, i - 1) \o <<x>> \o SubSeq(done, i, Len(done))
    ELSE Append(done, x)

RECURSIVE InsertAll(_, _, _, _)
InsertAll(done, rest, sort_by, ascending) ==
    IF rest = <<>> THEN done
    ELSE InsertAll(Insert(done, Head(rest), sort_by, ascending), Tail(rest),
                   sort_by, ascending)

Reverse(q) == [i \in 1..Len(q) |-> q[Len(q) + 1 - i]]

\* Mutant: the descending order is the ascending one reversed.
sorted_by_reversing(list, sort_by, ascending) ==
    IF ascending THEN InsertAll(<<>>, list, sort_by, TRUE)
    ELSE Reverse(InsertAll(<<>>, list, sort_by, TRUE))

\* sorted(list, key=..., reverse=not ascending): stable in both directions
sorted_by(list, sort_by, ascending) == InsertAll(<<>>, list, sort_by, ascending)

\* sorted() raises TypeError when two of the keys cannot be compared.
sort_raises(list, sort_by) ==
    \E i, j \in 1..Len(list) :
        i # j /\ ~Comparable(sort_key(list[i], sort_by), sort_key(list[j], sort_by))

\* Mutant: the list is sorted in place.
sort_students_in_place(list, sort_by, ascending) ==
    IF sort_raises(list, sort_by)
    THEN [students |-> list, raised |-> TRUE, result |-> <<>>]
    ELSE [students |-> sorted_by(list, sort_by, ascending), raised |-> FALSE,
          result |-> sorted_by(list, sort_by, ascending)]

\* DataProcessor.sort_students: the input list as the call leaves it, and the
\* list returned.
sort_students(list, sort_by, ascending) ==
    IF sort_raises(list, sort_by)
    THEN [students |-> list, raised |-> TRUE, result |-> <<>>]
    ELSE [students |-> list, raised |-> FALSE,
          result |-> sorted_by(list, sort_by, ascending)]

-----------------------------------------------------------------------------
(* Specification SpecQuery: filter_students and sort_students on a list of
   graded records *)

Graded(student) == calculate_grades(DefaultWeights, DefaultGradeScale, student)

\* Ann and Bob have the same scores, Ann and Dee the same name; Bob has no
\* attendance, Dee no optional attribute at all.
RecordPool ==
    { Graded(Student_init(Str("S1"), Str("Ann"), R(85), R(75), R(90),
                 << <<"class", Str("10A")>>, <<"attendance", Num(R(95))>> >>)),
      Graded(Student_init(Str("S2"), Str("Bob"), R(85), R(75), R(90),
                 << <<"class", Str("10B")>> >>)),
      Graded(Student_init(Str("S3"), Str("Cy"), R(95), R(60), R(40),
                 << <<"class", Str("10A")>>, <<"attendance", Num(R(80))>> >>)),
      Graded(Student_init(Str("S4"), Str("Ann"), R(100), R(100), R(100), <<>>)) }

FilterPool ==
    { <<>>,
      << <<"min_academic_score", Val(Num(R(85)))>> >>,
      << <<"max_academic_score", Val(Num(R(85)))>> >>,
      << <<"min_overall_score", Val(Num(R(78)))>>,
         <<"max_academic_score", Val(Num(R(95)))>> >>,
      << <<"max_academic_score", Val(Num(R(95)))>>,
         <<"min_overall_score", Val(Num(R(78)))>> >>,
      << <<"grade", Val(Str("A"))>> >>,
      << <<"class", Val(Str("10A"))>> >>,
      << <<"class", Val(Str("10A"))>>, <<"max_discipline_score", Val(Num(R(40)))>> >>,
      << <<"max_discipline_score", Val(Num(R(40)))>>, <<"class", Val(Str("10A"))>> >>,
      << <<"class", Val(NoneCell)>> >>,
      << <<"house", Val(Str("red"))>> >>,
      << <<"attendance", Val(Num(R(95)))>> >>,
      << <<"grade", Labels({"A", "B"})>> >>,
      << <<"academic_grade", Labels({"A"})>> >> }

SortFieldPool == NamedFields \cup {"class", "attendance"}

InitQuery ==
    /\ weights = DefaultWeights
    /\ grade_scale = DefaultGradeScale
    /\ students \in SeqsUpTo(RecordPool, MaxRecords)
    /\ dataframe = None
    /\ call = NoCall
    /\ probes = {}

FilterStudents(filters) ==
    /\ LET r == filter_students(students, filters)
       IN  /\ students' = r.students
           /\ call' = [op |-> "filter_students", arg |-> students,
                       filters |-> filters, sort_by |-> "", ascending |-> TRUE,
                       ret |-> r.result, raised |-> r.raised]
    /\ UNCHANGED <<weights, grade_scale, dataframe, probes>>

SortStudents(sort_by, ascending) ==
    /\ LET r == sort_students(students, sort_by, ascending)
       IN  /\ students' = r.students
           /\ call' = [op |-> "sort_students", arg |-> students,
                       filters |-> <<>>, sort_by |-> sort_by,
                       ascending |-> ascending,
                       ret |-> r.result, raised |-> r.raised]
    /\ UNCHANGED <<weights, grade_scale, dataframe, probes>>

NextQuery ==
    \/ \E filters \in FilterPool : FilterStudents(filters)
    \/ \E sort_by \in SortFieldPool, ascending \in BOOLEAN :
          SortStudents(sort_by, ascending)

SpecQuery == InitQuery /\ [][NextQuery]_vars

\* The field a min_ or max_ key bounds.
BoundedField ==
    [min_academic_score |-> "academic_score",
     min_cocurricular_score |-> "cocurricular_score",
     min_discipline_score |-> "discipline_score",
     min_overall_score |-> "overall_score",
     max_academic_score |-> "academic_score",
     max_cocurricular_score |-> "cocurricular_score",
     max_discipline_score |-> "discipline_score",
     max_overall_score |-> "overall_score"]

\* A constraint of one of the three kinds the filter has a branch for: a
\* numeric bound, a grade label, a text for one of the four attributes.
WellFormed(pair) ==
    \/ pair[1] \in ScoreKeys /\ pair[2].k = "num"
    \/ pair[1] = "grade" /\ pair[2].k = "str"
    \/ pair[1] \in AttributeKeys /\ pair[2].k = "str"

\* The record satisfies the well-formed constraint.
Satisfies(student, pair) ==
    CASE IsMinKey(pair[1]) -> RGeq(student[BoundedField[pair[1]]], pair[2].n)
      [] pair[1] \in ScoreKeys -> RLeq(student[BoundedField[pair[1]]], pair[2].n)
      [] pair[1] = "grade" -> student.overall_grade = pair[2].s
      [] OTHER -> /\ pair[1] \in DictKeys(student.attributes)
                  /\ DictGet(student.attributes, pair[1], NaN) = Str(pair[2].s)

\* C14: for a filter of well-formed constraints the result is the input
\* records, in input order, that satisfy every constraint, a bound being
\* satisfied by a score equal to it; the result is a function of the set of
\* constraints, so it does not depend on their order.
C14_FilterIsConjunctionOfConstraints ==
    (/\ call.op = "filter_students"
     /\ \A pair \in SeqRange(call.filters) : WellFormed(pair)) =>
        /\ ~call.raised
        /\ call.ret = SelectSeq(call.arg, LAMBDA st :
                          \A pair \in SeqRange(call.filters) : Satisfies(st, pair))

\* Two constraints, a record kept with both bounds met with equality, and a
\* record dropped.
C14_Witness ==
    /\ call.op = "filter_students" /\ ~call.raised
    /\ call.filters = << <<"max_academic_score", Val(Num(R(95)))>>,
                         <<"min_overall_score", Val(Num(R(78)))>> >>
    /\ \E i \in 1..Len(call.ret) :
          call.ret[i].academic_score = R(95) /\ call.ret[i].overall_score = R(78)
    /\ call.ret # <<>> /\ Len(call.ret) < Len(call.arg)

\* An equality constraint on an optional attribute: its key is no score key
\* and not grade, its value a single value.
AttributeConstraint(pair) ==
    pair[1] \notin (ScoreKeys \cup {"grade"}) /\ pair[2].k # "labels"

\* C15 as stated: for an equality constraint on any attribute key, every
\* record kept has the key with an equal value, so a record lacking the key
\* is never kept.
C15_AnyAttributeKeyIsMatched ==
    (call.op = "filter_students" /\ ~call.raised) =>
        \A pair \in SeqRange(call.filters) :
            AttributeConstraint(pair) =>
                \A i \in 1..Len(call.ret) :
                    /\ pair[1] \in DictKeys(call.ret[i].attributes)
                    /\ PyEq(DictGet(call.ret[i].attributes, pair[1], NaN), pair[2])

\* C15 amended: for a constraint on class, section, batch or gender, every
\* record kept either has the key with an equal value or lacks the key while
\* the constraint value is None; a filter of one such constraint keeps
\* exactly those records; a filter of one constraint on any other attribute
\* key keeps every record.
C15_OnlyFourAttributeKeysAreMatched ==
    (call.op = "filter_students" /\ ~call.raised) =>
        /\ \A pair \in SeqRange(call.filters) :
              (AttributeConstraint(pair) /\ pair[1] \in AttributeKeys) =>
                  \A i \in 1..Len(call.ret) :
                      IF pair[1] \in DictKeys(call.ret[i].attributes)
                      THEN PyEq(DictGet(call.ret[i].attributes, pair[1], NaN),
                                pair[2])
                      ELSE pair[2].k = "none"
        /\ (Len(call.filters) = 1 /\ AttributeConstraint(call.filters[1])) =>
              IF call.filters[1][1] \in AttributeKeys
              THEN call.ret = SelectSeq(call.arg, LAMBDA st :
                       IF call.filters[1][1] \in DictKeys(st.attributes)
                       THEN PyEq(DictGet(st.attributes, call.filters[1][1], NaN),
                                 call.filters[1][2])
                       ELSE call.filters[1][2].k = "none")
              ELSE call.ret = call.arg

\* A constraint on the attribute attendance, which some record has with
\* another value and some record lacks: every record is kept.
C15_Witness ==
    /\ call.op = "filter_students" /\ ~call.raised
    /\ call.filters = << <<"attendance", Val(Num(R(95)))>> >>
    /\ \E i \in 1..Len(call.arg) :
          DictGet(call.arg[i].attributes, "attendance", NaN) = Num(R(80))
    /\ \E i \in 1..Len(call.arg) :
          "attendance" \notin DictKeys(call.arg[i].attributes)
    /\ call.ret = call.arg

\* The grade field a filter key names.
GradeField ==
    [grade |-> "overall_grade", academic_grade |-> "academic_grade"]

\* C16 as stated: a filter of one constraint giving a collection of labels
\* for a grade field keeps exactly the records whose grade in that field is
\* one of the labels.
C16_GradeSetMembership ==
    (/\ call.op = "filter_students"
     /\ Len(call.filters) = 1
     /\ call.filters[1][1] \in DOMAIN GradeField
     /\ call.filters[1][2].k = "labels") =>
        /\ ~call.raised
        /\ call.ret = SelectSeq(call.arg, LAMBDA st :
                          st[GradeField[call.filters[1][1]]]
                              \in call.filters[1][2].labels)

\* C16 amended: a filter of the one constraint grade with a single label
\* keeps exactly the records whose overall grade is that label; with a
\* collection of labels as the value it keeps no record; a key naming another
\* grade field is passed over and every record is kept.
C16_GradeEqualityOnOverallOnly ==
    (/\ call.op = "filter_students"
     /\ Len(call.filters) = 1
     /\ call.filters[1][1] \in DOMAIN GradeField
     /\ call.filters[1][2].k \in {"str", "labels"}) =>
        /\ ~call.raised
        /\ call.ret =
              IF call.filters[1][1] # "grade" THEN call.arg
              ELSE IF call.filters[1][2].k = "labels" THEN <<>>
              ELSE SelectSeq(call.arg, LAMBDA st :
                       st.overall_grade = call.filters[1][2].s)

\* The constraint grade = A on a list with a record of overall grade A and a
\* record of academic grade A and another overall grade.
C16_Witness ==
    /\ call.op = "filter_students" /\ ~call.raised
    /\ call.filters = << <<"grade", Val(Str("A"))>> >>
    /\ \E i \in 1..Len(call.arg) :
          call.arg[i].academic_grade = "A" /\ call.arg[i].overall_grade # "A"
    /\ \E i \in 1..Len(call.ret) : call.ret[i].overall_grade = "A"

\* The sort keys of the records of a list.
KeysOf(list, sort_by) == {sort_key(list[i], sort_by) : i \in 1..Len(list)}

\* C17: in both directions, the records with any one sort key come out in
\* the order they went in.
C17_SortIsStable ==
    (call.op = "sort_students" /\ ~call.raised) =>
        \A key \in KeysOf(call.arg, call.sort_by) :
            SelectSeq(call.ret, LAMBDA st : sort_key(st, call.sort_by) = key)
            = SelectSeq(call.arg, LAMBDA st : sort_key(st, call.sort_by) = key)

\* A descending sort that moves a record, of a list with two different
\* records of the same key.
C17_Witness ==
    /\ call.op = "sort_students" /\ ~call.raised /\ ~call.ascending
    /\ call.ret # call.arg
    /\ \E i, j \in 1..Len(call.arg) :
          /\ i < j
          /\ call.arg[i] # call.arg[j]
          /\ sort_key(call.arg[i], call.sort_by) = sort_key(call.arg[j], call.sort_by)

\* C18: a sort by a field that is none of the named ones does not fail and
\* returns the records of the list, those lacking the attribute first when
\* ascending.
C18_AttributeSortNeverFails ==
    (call.op = "sort_students" /\ call.sort_by \notin NamedFields) =>
        /\ ~call.raised
        /\ Len(call.ret) = Len(call.arg)
        /\ call.ascending =>
              \A i, j \in 1..Len(call.ret) :
                  (/\ call.sort_by \notin DictKeys(call.ret[i].attributes)
                   /\ call.sort_by \in DictKeys(call.ret[j].attributes)) => i < j

\* C19: after filter_students or sort_students the input list is what it
\* was, and every element of the result is a record of the input list.
C19_QueriesDoNotMutateInput ==
    call.op \in {"filter_students", "sort_students"} =>
        /\ students = call.arg
        /\ \A i \in 1..Len(call.ret) : call.ret[i] \in SeqRange(call.arg)

\* A sort that returns another order than the input's, the input list still
\* in its own order.
C19_Witness ==
    /\ call.op = "sort_students" /\ ~call.raised
    /\ call.ret # call.arg
    /\ students = call.arg

\* How many times the record occurs in the list.
Count(list, record) == Cardinality({i \in 1..Len(list) : list[i] = record})

\* C29: for each named field the sort does not fail, returns every record
\* of the input as many times as the input holds it and no other, and the
\* keys of the result never decrease when ascending and never increase when
\* descending.
C29_SortIsSortedPermutation ==
    (call.op = "sort_students" /\ call.sort_by \in NamedFields) =>
        /\ ~call.raised
        /\ Len(call.ret) = Len(call.arg)
        /\ \A record \in SeqRange(call.arg) \cup SeqRange(call.ret) :
              Count(call.ret, record) = Count(call.arg, record)
        /\ \A i, j \in 1..Len(call.ret) :
              i < j =>
                  IF call.ascending
                  THEN ~PyLess(sort_key(call.ret[j], call.sort_by),
                               sort_key(call.ret[i], call.sort_by))
                  ELSE ~PyLess(sort_key(call.ret[i], call.sort_by),
                               sort_key(call.ret[j], call.sort_by))

\* A descending sort by name of three records with three names, given in
\* another order.
C29_Witness ==
    /\ call.op = "sort_students" /\ call.sort_by = "name" /\ ~call.ascending
    /\ Len(call.arg) = 3
    /\ Cardinality(KeysOf(call.arg, "name")) = 3
    /\ call.ret # call.arg

====
